---- MODULE Spec2Model ----
(***************************************************************************)
(* Threshold secret sharing of files (fanhousanbu/secret-sharing).         *)
(*                                                                         *)
(* The module models src/src/crypto/shamir.ts (finite field, splitSecret,  *)
(* recoverSecret), the chunk codec and the two file schemes of             *)
(* WebFileProcessor (src/unnamed/part_004) and the conversions of          *)
(* src/src/crypto/webCrypto.ts.                                            *)
(*                                                                         *)
(* Widths.  The program works on 8-bit bytes, 32-byte chunks and keys and  *)
(* a 256-bit prime; TLC's integers are 32 bits wide.  The model keeps the  *)
(* code of every operation and shrinks the three widths together:          *)
(*   a byte has ByteBase = HexBase^2 = 4 values      (program: 16^2 = 256) *)
(*   a chunk / key / random draw has CHUNK_SIZE = 2 bytes   (program: 32)  *)
(*   the field prime is 2^4 - 2^3 + 2^2 + 2^1 - 1 = 13                     *)
(*                        (program: 2^256 - 2^224 + 2^192 + 2^96 - 1).     *)
(* As in the program the prime is a prime just below                       *)
(* ByteBase^CHUNK_SIZE (16 here, 2^256 there), and larger than any share   *)
(* id.  An AES key has KEY_SIZE = 2 bytes (program: 32), so that, as in    *)
(* the program, a key is as wide as a chunk and a few keys are not below   *)
(* the prime; iv, salt and tag have 1, 1 and 2 bytes (program: 12, 16 and  *)
(* 16).                                                                    *)
(***************************************************************************)
EXTENDS Integers, Sequences, FiniteSets, TLC

(***************************************************************************)
(* Bounds of the model.                                                    *)
(***************************************************************************)
\* largest totalShares of a config handed to splitSecret
MaxShares == 3
\* longest byte buffer handed to the chunk codec
MaxBufLen == 5
\* longest file handed to splitFilePureShamir without a password
MaxFileLen == 3
\* longest file that is encrypted: by splitFile, or with a password
MaxSealedLen == 1

\* mod and modInverse: arguments a in -MaxFieldArg .. MaxFieldArg and moduli m
\* in 1 .. MaxModulus
MaxFieldArg == 30

MaxModulus == 13

\* the bytes of a mnemonic: one more than the bytes of a chunk or key, as the
\* 12 words of a phrase are at least 47 bytes (program: 32 for the chunk)
MnemonicLen == 3

(***************************************************************************)
(* Widths of the program, shrunk as described above.                       *)
(***************************************************************************)
\* values of one hex digit (program: 16)
HexBase == 2
\* values of one byte of a Uint8Array (program: 256 = 16^2)
ByteBase == HexBase * HexBase
\* WebFileProcessor.CHUNK_SIZE (program: 32)
CHUNK_SIZE == 2
\* bytes drawn per random coefficient, new Uint8Array(32) (program: 32)
RANDOM_BYTES == 2

Byte == 0 .. (ByteBase - 1)

\* all byte buffers of length n
ByteSeqs(n) == [1 .. n -> Byte]

\* all byte buffers of length 0..n
ByteSeqsUpTo(n) == UNION {ByteSeqs(k) : k \in 0 .. n}

RECURSIVE Pow(_, _)
Pow(b, e) == IF e = 0 THEN 1 ELSE b * Pow(b, e - 1)

Min(a, b) == IF a < b THEN a ELSE b

(***************************************************************************)
(* JavaScript integer arithmetic: % takes the sign of the dividend and     *)
(* BigInt / truncates toward zero.                                         *)
(***************************************************************************)
JsRem(a, m) == IF a >= 0 THEN a % m ELSE -((-a) % m)

JsDiv(a, b) == IF a >= 0 THEN a \div b ELSE -((-a) \div b)

(***************************************************************************)
(* shamir.ts: the finite field.                                            *)
(***************************************************************************)
generateSecurePrime == Pow(2, 4) - Pow(2, 3) + Pow(2, 2) + Pow(2, 1) - 1

getSecurePrime == generateSecurePrime

\* mutant: the remainder is not lifted into [0, m)
modNoLift(a, m) == JsRem(a, m)

mod(a, m) == JsRem(JsRem(a, m) + m, m)

\* the while loop of modInverse; returns the final old_s
RECURSIVE modInverseLoop(_, _, _, _)
modInverseLoop(old_r, r, old_s, s) ==
    IF r = 0
    THEN old_s
    ELSE LET quotient == JsDiv(old_r, r)
         IN  modInverseLoop(r, old_r - quotient * r, s, old_s - quotient * s)

\* modInverse that returns the last coefficient as the loop left it
modInverseNoFinalMod(a, m) ==
    LET a1 == IF a < 0 THEN mod(a, m) ELSE a
    IN  modInverseLoop(a1, m, 1, 0)

modInverse(a, m) ==
    LET a1 == IF a < 0 THEN mod(a, m) ELSE a
    IN  mod(modInverseLoop(a1, m, 1, 0), m)

(***************************************************************************)
(* shamir.ts: Lagrange interpolation at x = 0.                             *)
(***************************************************************************)
\* mutant: the positions in the list are taken for the evaluation points
RECURSIVE lagrangeInnerByIndex(_, _, _, _, _)
lagrangeInnerByIndex(shs, i, j, numerator, denominator) ==
    IF j > Len(shs)
    THEN <<numerator, denominator>>
    ELSE IF i # j
         THEN lagrangeInnerByIndex(shs, i, j + 1,
                  mod(numerator * (-j), getSecurePrime),
                  mod(denominator * (i - j), getSecurePrime))
         ELSE lagrangeInnerByIndex(shs, i, j + 1, numerator, denominator)

\* the inner loop over j, from position j on: <<numerator, denominator>>
RECURSIVE lagrangeInner(_, _, _, _, _)
lagrangeInner(shs, i, j, numerator, denominator) ==
    IF j > Len(shs)
    THEN <<numerator, denominator>>
    ELSE IF i # j
         THEN lagrangeInner(shs, i, j + 1,
                  mod(numerator * (-shs[j].id), getSecurePrime),
                  mod(denominator * (shs[i].id - shs[j].id), getSecurePrime))
         ELSE lagrangeInner(shs, i, j + 1, numerator, denominator)

lagrangeCoeff(shs, i) ==
    LET nd == lagrangeInner(shs, i, 1, 1, 1)
    IN  mod(nd[1] * modInverse(nd[2], getSecurePrime), getSecurePrime)

\* the outer loop over i, from position i on
RECURSIVE lagrangeOuter(_, _, _)
lagrangeOuter(shs, i, result) ==
    IF i > Len(shs)
    THEN result
    ELSE lagrangeOuter(shs, i + 1,
             mod(result + shs[i].value * lagrangeCoeff(shs, i), getSecurePrime))

lagrangeInterpolation(shs) == lagrangeOuter(shs, 1, 0)

(***************************************************************************)
(* shamir.ts: coefficients and polynomial evaluation.                      *)
(***************************************************************************)
\* coeff = (coeff << 8n) + BigInt(randomBytes[j]) over j, then % prime
RECURSIVE randomCoeffLoop(_, _, _)
randomCoeffLoop(randomBytes, j, coeff) ==
    IF j > Len(randomBytes)
    THEN coeff
    ELSE randomCoeffLoop(randomBytes, j + 1, coeff * ByteBase + randomBytes[j])

randomCoeff(randomBytes) ==
    JsRem(randomCoeffLoop(randomBytes, 1, 0), getSecurePrime)

\* mutant: the random bytes are never filled in and stay 0
generateCoefficientsNoRandom(threshold, s, random) ==
    <<s>> \o [i \in 1 .. (threshold - 1) |-> 0]

\* random[i] is the outcome of the i-th crypto.getRandomValues call
generateCoefficients(threshold, s, random) ==
    <<s>> \o [i \in 1 .. (threshold - 1) |-> randomCoeff(random[i])]

RECURSIVE evaluatePolynomialLoop(_, _, _, _, _)
evaluatePolynomialLoop(coefficients, x, k, result, xPower) ==
    IF k > Len(coefficients)
    THEN result
    ELSE evaluatePolynomialLoop(coefficients, x, k + 1,
             mod(result + coefficients[k] * xPower, getSecurePrime),
             mod(xPower * x, getSecurePrime))

\* mutant: xPower starts at x, so coefficient k is multiplied by x^k
evaluatePolynomialShifted(coefficients, x) ==
    evaluatePolynomialLoop(coefficients, x, 1, 0, x)

evaluatePolynomial(coefficients, x) ==
    evaluatePolynomialLoop(coefficients, x, 1, 0, 1)

(***************************************************************************)
(* Results of a call: a value or a thrown Error.  An error message is its  *)
(* template and the values interpolated into it.                           *)
(***************************************************************************)
NoError == [msg |-> "", args |-> <<>>]

Err(m, a) == [msg |-> m, args |-> a]

Threw(r) == r.error # NoError

(***************************************************************************)
(* shamir.ts: splitSecret and recoverSecret.                               *)
(***************************************************************************)
\* mutant: the threshold check rejects threshold = totalShares
splitSecretStrict(s, cfg, random) ==
    IF cfg.threshold >= cfg.totalShares
    THEN [error |-> Err("Threshold cannot be greater than total shares", <<>>),
          coefficients |-> <<>>, shares |-> <<>>]
    ELSE IF cfg.threshold < 2
    THEN [error |-> Err("Threshold must be at least 2", <<>>),
          coefficients |-> <<>>, shares |-> <<>>]
    ELSE LET coefficients == generateCoefficients(cfg.threshold, s, random)
         IN  [error |-> NoError,
              coefficients |-> coefficients,
              shares |-> [i \in 1 .. cfg.totalShares |->
                             [id |-> i,
                              value |-> evaluatePolynomial(coefficients, i)]]]

splitSecret(s, cfg, random) ==
    IF cfg.threshold > cfg.totalShares
    THEN [error |-> Err("Threshold cannot be greater than total shares", <<>>),
          coefficients |-> <<>>, shares |-> <<>>]
    ELSE IF cfg.threshold < 2
    THEN [error |-> Err("Threshold must be at least 2", <<>>),
          coefficients |-> <<>>, shares |-> <<>>]
    ELSE LET coefficients == generateCoefficients(cfg.threshold, s, random)
         IN  [error |-> NoError,
              coefficients |-> coefficients,
              shares |-> [i \in 1 .. cfg.totalShares |->
                             [id |-> i,
                              value |-> evaluatePolynomial(coefficients, i)]]]

\* mutant: the length check is off by one
recoverSecretOffByOne(shs, threshold) ==
    IF Len(shs) < threshold - 1
    THEN [error |-> Err("Need at least ${threshold} shares to recover secret",
                        <<threshold>>),
          value |-> -1]
    ELSE [error |-> NoError,
          value |-> lagrangeInterpolation(
                        SubSeq(shs, 1, Min(threshold, Len(shs))))]

\* every share handed in is interpolated
recoverSecretAllShares(shs, threshold) ==
    IF Len(shs) < threshold
    THEN [error |-> Err("Need at least ${threshold} shares to recover secret",
                        <<threshold>>),
          value |-> -1]
    ELSE [error |-> NoError, value |-> lagrangeInterpolation(shs)]

recoverSecret(shs, threshold) ==
    IF Len(shs) < threshold
    THEN [error |-> Err("Need at least ${threshold} shares to recover secret",
                        <<threshold>>),
          value |-> -1]
    ELSE [error |-> NoError,
          value |-> lagrangeInterpolation(SubSeq(shs, 1, threshold))]

(***************************************************************************)
(* WebFileProcessor: the chunk codec.  Buffers are sequences of bytes;     *)
(* position i of a Uint8Array is element i + 1 of the sequence.            *)
(***************************************************************************)
\* chunkBytes of the block starting at offset i: the data, then zeroes
chunkBytesAt(uint8Array, i) ==
    LET actualChunkSize == Min(CHUNK_SIZE, Len(uint8Array) - i)
    IN  [j \in 1 .. CHUNK_SIZE |->
            IF j - 1 < actualChunkSize THEN uint8Array[i + j] ELSE 0]

\* mutant: the bytes are folded from the low end, which reads big-endian
RECURSIVE chunkBytesToBigIntBE(_, _, _)
chunkBytesToBigIntBE(chunkBytes, j, bigintValue) ==
    IF j < 0
    THEN bigintValue
    ELSE chunkBytesToBigIntBE(chunkBytes, j - 1,
             bigintValue * ByteBase + chunkBytes[CHUNK_SIZE - j])

\* for (j = CHUNK_SIZE - 1; j >= 0; j--) bigintValue = (bigintValue << 8n) + ...
RECURSIVE chunkBytesToBigInt(_, _, _)
chunkBytesToBigInt(chunkBytes, j, bigintValue) ==
    IF j < 0
    THEN bigintValue
    ELSE chunkBytesToBigInt(chunkBytes, j - 1,
             bigintValue * ByteBase + chunkBytes[j + 1])

RECURSIVE encodeLoop(_, _, _)
encodeLoop(uint8Array, i, chunks) ==
    IF i >= Len(uint8Array)
    THEN chunks
    ELSE encodeLoop(uint8Array, i + CHUNK_SIZE,
             Append(chunks,
                    chunkBytesToBigInt(chunkBytesAt(uint8Array, i),
                                       CHUNK_SIZE - 1, 0)))

arrayBufferToBigIntChunks(buffer) == encodeLoop(buffer, 0, <<>>)

\* mutant: the bytes are written from the high end
bigIntToChunkBytesBE(chunk) ==
    [i \in 1 .. CHUNK_SIZE |->
        (chunk \div Pow(ByteBase, CHUNK_SIZE - i)) % ByteBase]

\* chunkBytes[i] = Number(value & 0xffn); value = value >> 8n, CHUNK_SIZE times
bigIntToChunkBytes(chunk) ==
    [i \in 1 .. CHUNK_SIZE |-> (chunk \div Pow(ByteBase, i - 1)) % ByteBase]

RECURSIVE decodeLoop(_, _, _, _, _)
decodeLoop(chunks, originalSize, chunkIndex, result, offset) ==
    IF chunkIndex >= Len(chunks)
    THEN result
    ELSE LET chunkBytes == bigIntToChunkBytes(chunks[chunkIndex + 1])
             remainingBytes == originalSize - offset
             bytesToCopy == Min(CHUNK_SIZE, remainingBytes)
             copied == [k \in 1 .. originalSize |->
                           IF k > offset /\ k <= offset + bytesToCopy
                           THEN chunkBytes[k - offset]
                           ELSE result[k]]
         IN  IF offset + bytesToCopy >= originalSize
             THEN copied
             ELSE decodeLoop(chunks, originalSize, chunkIndex + 1, copied,
                             offset + bytesToCopy)

bigIntChunksToArrayBuffer(chunks, originalSize) ==
    decodeLoop(chunks, originalSize, 0, [k \in 1 .. originalSize |-> 0], 0)

(***************************************************************************)
(* webCrypto.ts: conversions between buffers and integers.  A hex string   *)
(* is the sequence of its digits, each in 0 .. HexBase - 1.                *)
(***************************************************************************)
\* Number / BigInt .toString(16): the digits, without leading zeroes
RECURSIVE toStringHex(_)
toStringHex(n) ==
    IF n < HexBase THEN <<n>> ELSE Append(toStringHex(n \div HexBase), n % HexBase)

\* String.padStart(targetLength, '0'): pads a short string, keeps a long one
padStart(str, targetLength) ==
    IF Len(str) >= targetLength
    THEN str
    ELSE [i \in 1 .. (targetLength - Len(str)) |-> 0] \o str

\* String.substr(start, n): at most n digits from position start (from 0)
substr(str, start, n) == SubSeq(str, start + 1, Min(start + n, Len(str)))

\* parseInt(str, 16) and BigInt('0x' + str), from digit k on
RECURSIVE parseHex(_, _, _)
parseHex(str, k, acc) ==
    IF k > Len(str) THEN acc ELSE parseHex(str, k + 1, acc * HexBase + str[k])

\* hex += bytes[i].toString(16).padStart(2, '0'), from byte i on
RECURSIVE hexOfBytes(_, _, _)
hexOfBytes(bytes, i, hex) ==
    IF i > Len(bytes)
    THEN hex
    ELSE hexOfBytes(bytes, i + 1, hex \o padStart(toStringHex(bytes[i]), 2))

arrayBufferToBigInt(buffer) == parseHex(hexOfBytes(buffer, 1, <<>>), 1, 0)

bigIntToArrayBuffer(value, length) ==
    LET hex == padStart(toStringHex(value), length * 2)
    IN  [i \in 1 .. length |-> parseHex(substr(hex, (i - 1) * 2, 2), 1, 0)]

(***************************************************************************)
(* The platform's crypto.subtle, as webCrypto.ts calls it.  The digest is  *)
(* free of collisions, the key derivation is a fixed function of password  *)
(* and salt, and the cipher is an authenticated stream cipher: decryption  *)
(* under the key and iv of the encryption returns the plaintext, and       *)
(* decryption under any other key is rejected by the tag.                  *)
(***************************************************************************)
\* bytes of an AES key, bigIntToArrayBuffer(recoveredKeyBigInt, 32) (program: 32)
KEY_SIZE == 2
\* bytes of an AES-GCM iv, new Uint8Array(12) and ivSize (program: 12)
IV_SIZE == 1
\* bytes of a PBKDF2 salt, new Uint8Array(16) (program: 16)
SALT_SIZE == 1
\* bytes of the AES-GCM tag that ends a ciphertext (program: 16)
TAG_SIZE == 2

\* the value of an optional field: absent, or present with its bytes
Undefined == [present |-> FALSE, bytes |-> <<>>]

Defined(bytes) == [present |-> TRUE, bytes |-> bytes]

\* crypto.subtle.digest('SHA-256', data) in hex: one digest per buffer
calculateSHA256(data) == <<Len(data)>> \o data

\* TextEncoder.encode(password) as a number
passwordCode(password) ==
    CASE password = "pw1" -> 1
      [] password = "pw2" -> 2
      [] OTHER -> 0

\* PBKDF2 with 100000 iterations of SHA-256, exported as KEY_SIZE bytes
deriveKeyFromPassword(password, salt) ==
    bigIntToArrayBuffer(
        (5 + 7 * passwordCode(password) + 3 * arrayBufferToBigInt(salt))
            % Pow(ByteBase, KEY_SIZE),
        KEY_SIZE)

\* byte i of the key stream of (keyBuffer, iv)
keyStream(keyBuffer, iv, i) ==
    (arrayBufferToBigInt(keyBuffer) + arrayBufferToBigInt(iv) + i) % ByteBase

RECURSIVE weightedSum(_, _)
weightedSum(bytes, i) ==
    IF i > Len(bytes) THEN 0 ELSE i * bytes[i] + weightedSum(bytes, i + 1)

\* the authentication tag of a ciphertext under (keyBuffer, iv)
gcmTag(keyBuffer, iv, cipherText) ==
    bigIntToArrayBuffer(
        (arrayBufferToBigInt(keyBuffer) + 5 * arrayBufferToBigInt(iv)
            + weightedSum(cipherText, 1)) % Pow(ByteBase, TAG_SIZE),
        TAG_SIZE)

\* crypto.subtle.encrypt({name: 'AES-GCM', iv}, key, data)
subtleEncrypt(keyBuffer, iv, data) ==
    LET cipherText == [i \in 1 .. Len(data) |->
                          (data[i] + keyStream(keyBuffer, iv, i)) % ByteBase]
    IN  cipherText \o gcmTag(keyBuffer, iv, cipherText)

\* crypto.subtle.decrypt({name: 'AES-GCM', iv}, key, encryptedData): the
\* plaintext, or an OperationError when the tag does not match
subtleDecrypt(keyBuffer, iv, encryptedData) ==
    IF Len(encryptedData) < TAG_SIZE
    THEN [error |-> Err("OperationError", <<>>), data |-> <<>>]
    ELSE LET n == Len(encryptedData) - TAG_SIZE
             cipherText == SubSeq(encryptedData, 1, n)
             tag == SubSeq(encryptedData, n + 1, Len(encryptedData))
         IN  IF tag # gcmTag(keyBuffer, iv, cipherText)
             THEN [error |-> Err("OperationError", <<>>), data |-> <<>>]
             ELSE [error |-> NoError,
                   data |-> [i \in 1 .. n |->
                                (cipherText[i] + ByteBase
                                    - keyStream(keyBuffer, iv, i)) % ByteBase]]

(***************************************************************************)
(* webCrypto.ts: encryptData, decryptData, decryptDataWithPassword.        *)
(* An absent password and the empty password are both falsy: "".           *)
(***************************************************************************)
\* rnd holds the outcomes of the random calls: the salt, the generated key
\* and the iv
encryptData(data, userPassword, rnd) ==
    LET salt == IF userPassword # "" THEN Defined(rnd.salt) ELSE Undefined
        keyBuffer == IF userPassword # ""
                     THEN deriveKeyFromPassword(userPassword, rnd.salt)
                     ELSE rnd.key
    IN  [encryptedData |-> subtleEncrypt(keyBuffer, rnd.iv, data),
         key |-> keyBuffer,
         iv |-> rnd.iv,
         salt |-> salt]

\* importKey rejects a raw key that is not KEY_SIZE bytes long
decryptData(encryptedData, keyBuffer, iv) ==
    IF Len(keyBuffer) # KEY_SIZE
    THEN [error |-> Err("DataError", <<>>), data |-> <<>>]
    ELSE subtleDecrypt(keyBuffer, iv, encryptedData)

decryptDataWithPassword(encryptedData, password, salt, iv) ==
    decryptData(encryptedData, deriveKeyFromPassword(password, salt), iv)

(***************************************************************************)
(* WebFileProcessor: the hybrid scheme.  A file is its name and its bytes. *)
(* A result carries the error thrown, if any, and calls, the decryption    *)
(* steps that ran, in order.                                               *)
(***************************************************************************)
NoHybridMetadata ==
    [threshold |-> 0, totalShares |-> 0, filename |-> "", originalSize |-> 0,
     iv |-> <<>>, salt |-> Undefined, usePassword |-> FALSE,
     originalSHA256 |-> <<>>]

\* random holds the draws of splitSecret; key is the key that was split
splitFile(file, cfg, userPassword, rnd, random) ==
    LET fileData == file.bytes
        originalSHA256 == calculateSHA256(fileData)
        encryptionResult == encryptData(fileData, userPassword, rnd)
        keyBigInt == arrayBufferToBigInt(encryptionResult.key)
        keyShares == splitSecret(keyBigInt, cfg, random)
    IN  IF Threw(keyShares)
        THEN [error |-> keyShares.error, shares |-> <<>>,
              metadata |-> NoHybridMetadata, encryptedData |-> <<>>,
              key |-> <<>>]
        ELSE [error |-> NoError,
              shares |-> keyShares.shares,
              metadata |->
                  [threshold |-> cfg.threshold,
                   totalShares |-> cfg.totalShares,
                   filename |-> file.name,
                   originalSize |-> Len(file.bytes),
                   iv |-> encryptionResult.iv,
                   salt |-> encryptionResult.salt,
                   usePassword |-> userPassword # "",
                   originalSHA256 |-> originalSHA256],
              encryptedData |-> encryptionResult.encryptedData,
              key |-> encryptionResult.key]

\* a call that threw after the steps in calls
Failed(error, calls) ==
    [error |-> error, data |-> <<>>, recoveredSHA256 |-> <<>>,
     filename |-> "", calls |-> calls]

\* createRecoveryResult with the digest of an empty buffer
createRecoveryResultStaleDigest(data, filename, calls) ==
    [error |-> NoError, data |-> data,
     recoveredSHA256 |-> calculateSHA256(<<>>),
     filename |-> filename, calls |-> calls]

createRecoveryResult(data, filename, calls) ==
    [error |-> NoError, data |-> data,
     recoveredSHA256 |-> calculateSHA256(data),
     filename |-> filename, calls |-> calls]

\* recoverFile with the key always recovered from the shares
recoverFileKeyFromShares(encryptedData, options, userPassword) ==
    LET shares == options.shares
        metadata == options.metadata
    IN  IF Len(shares) < metadata.threshold
        THEN Failed(Err("Need at least ${metadata.threshold} shares to recover file",
                        <<metadata.threshold>>), <<>>)
        ELSE IF metadata.usePassword /\ userPassword = ""
        THEN Failed(Err("This file is password encrypted, please provide the correct password",
                        <<>>), <<>>)
        ELSE IF ~metadata.usePassword /\ userPassword # ""
        THEN Failed(Err("This file is not password encrypted, no password needed",
                        <<>>), <<>>)
        ELSE LET recovered == recoverSecret(shares, metadata.threshold)
                 recoveredKey == bigIntToArrayBuffer(recovered.value, KEY_SIZE)
                 decrypted == decryptData(encryptedData, recoveredKey,
                                          metadata.iv)
                 calls == <<"recoverSecret", "decryptData">>
             IN  IF Threw(recovered)
                 THEN Failed(recovered.error, <<"recoverSecret">>)
                 ELSE IF Threw(decrypted)
                 THEN Failed(decrypted.error, calls)
                 ELSE createRecoveryResult(decrypted.data, metadata.filename,
                                           calls)

\* recoverFile without its two password checks
recoverFileNoPasswordCheck(encryptedData, options, userPassword) ==
    LET shares == options.shares
        metadata == options.metadata
    IN  IF Len(shares) < metadata.threshold
        THEN Failed(Err("Need at least ${metadata.threshold} shares to recover file",
                        <<metadata.threshold>>), <<>>)
        ELSE IF metadata.usePassword /\ userPassword # "" /\ metadata.salt.present
        THEN LET decrypted == decryptDataWithPassword(encryptedData,
                                  userPassword, metadata.salt.bytes, metadata.iv)
                 calls == <<"decryptDataWithPassword">>
             IN  IF Threw(decrypted)
                 THEN Failed(decrypted.error, calls)
                 ELSE createRecoveryResult(decrypted.data, metadata.filename,
                                           calls)
        ELSE LET recovered == recoverSecret(shares, metadata.threshold)
                 recoveredKey == bigIntToArrayBuffer(recovered.value, KEY_SIZE)
                 decrypted == decryptData(encryptedData, recoveredKey,
                                          metadata.iv)
                 calls == <<"recoverSecret", "decryptData">>
             IN  IF Threw(recovered)
                 THEN Failed(recovered.error, <<"recoverSecret">>)
                 ELSE IF Threw(decrypted)
                 THEN Failed(decrypted.error, calls)
                 ELSE createRecoveryResult(decrypted.data, metadata.filename,
                                           calls)

\* recoverFile with the password checks before the count of the shares
recoverFilePasswordFirst(encryptedData, options, userPassword) ==
    LET metadata == options.metadata
    IN  IF metadata.usePassword /\ userPassword = ""
        THEN Failed(Err("This file is password encrypted, please provide the correct password",
                        <<>>), <<>>)
        ELSE IF ~metadata.usePassword /\ userPassword # ""
        THEN Failed(Err("This file is not password encrypted, no password needed",
                        <<>>), <<>>)
        ELSE recoverFileNoPasswordCheck(encryptedData, options, userPassword)

recoverFile(encryptedData, options, userPassword) ==
    LET shares == options.shares
        metadata == options.metadata
    IN  IF Len(shares) < metadata.threshold
        THEN Failed(Err("Need at least ${metadata.threshold} shares to recover file",
                        <<metadata.threshold>>), <<>>)
        ELSE IF metadata.usePassword /\ userPassword = ""
        THEN Failed(Err("This file is password encrypted, please provide the correct password",
                        <<>>), <<>>)
        ELSE IF ~metadata.usePassword /\ userPassword # ""
        THEN Failed(Err("This file is not password encrypted, no password needed",
                        <<>>), <<>>)
        ELSE IF metadata.usePassword /\ userPassword # "" /\ metadata.salt.present
        THEN LET decrypted == decryptDataWithPassword(encryptedData,
                                  userPassword, metadata.salt.bytes, metadata.iv)
                 calls == <<"decryptDataWithPassword">>
             IN  IF Threw(decrypted)
                 THEN Failed(decrypted.error, calls)
                 ELSE createRecoveryResult(decrypted.data, metadata.filename,
                                           calls)
        ELSE LET recovered == recoverSecret(shares, metadata.threshold)
                 recoveredKey == bigIntToArrayBuffer(recovered.value, KEY_SIZE)
                 decrypted == decryptData(encryptedData, recoveredKey,
                                          metadata.iv)
                 calls == <<"recoverSecret", "decryptData">>
             IN  IF Threw(recovered)
                 THEN Failed(recovered.error, <<"recoverSecret">>)
                 ELSE IF Threw(decrypted)
                 THEN Failed(decrypted.error, calls)
                 ELSE createRecoveryResult(decrypted.data, metadata.filename,
                                           calls)

(***************************************************************************)
(* WebFileProcessor: the pure Shamir scheme.                               *)
(***************************************************************************)
NoPureShamirMetadata ==
    [scheme |-> "pure-shamir", threshold |-> 0, totalShares |-> 0,
     filename |-> "", originalSize |-> 0, processedSize |-> 0,
     chunkSize |-> CHUNK_SIZE, totalChunks |-> 0, usePassword |-> FALSE,
     salt |-> Undefined, originalSHA256 |-> <<>>]

\* the data that is split and its salt: the file, or iv and ciphertext
processFileData(file, userPassword, rnd) ==
    IF userPassword # ""
    THEN LET encryptionResult == encryptData(file.bytes, userPassword, rnd)
         IN  [fileData |-> encryptionResult.iv \o encryptionResult.encryptedData,
              salt |-> encryptionResult.salt]
    ELSE [fileData |-> file.bytes, salt |-> Undefined]

\* the shares of one chunk, tagged with the chunk counted from one
pureShamirSharesOneBased(chunkShares, chunkIndex, totalChunks) ==
    [i \in 1 .. Len(chunkShares) |->
        [id |-> chunkShares[i].id, value |-> chunkShares[i].value,
         chunkIndex |-> chunkIndex + 1, totalChunks |-> totalChunks]]

\* chunkShares.map(...): the shares of one chunk, tagged with the chunk
pureShamirShares(chunkShares, chunkIndex, totalChunks) ==
    [i \in 1 .. Len(chunkShares) |->
        [id |-> chunkShares[i].id, value |-> chunkShares[i].value,
         chunkIndex |-> chunkIndex, totalChunks |-> totalChunks]]

\* the loop over the chunks, from chunkIndex on; randoms[k] holds the draws
\* of the split of chunk k
RECURSIVE splitChunksLoop(_, _, _, _, _)
splitChunksLoop(chunks, cfg, randoms, chunkIndex, allShares) ==
    IF chunkIndex >= Len(chunks)
    THEN [error |-> NoError, shares |-> allShares]
    ELSE LET chunkShares == splitSecret(chunks[chunkIndex + 1], cfg,
                                        randoms[chunkIndex + 1])
         IN  IF Threw(chunkShares)
             THEN [error |-> chunkShares.error, shares |-> <<>>]
             ELSE splitChunksLoop(chunks, cfg, randoms, chunkIndex + 1,
                      Append(allShares,
                             pureShamirShares(chunkShares.shares, chunkIndex,
                                              Len(chunks))))

\* chunks of the result are the integers that were split
splitFilePureShamir(file, cfg, userPassword, rnd, randoms) ==
    LET originalSHA256 == calculateSHA256(file.bytes)
        processed == processFileData(file, userPassword, rnd)
        chunks == arrayBufferToBigIntChunks(processed.fileData)
        allShares == splitChunksLoop(chunks, cfg, randoms, 0, <<>>)
    IN  IF Threw(allShares)
        THEN [error |-> allShares.error, chunks |-> <<>>, shares |-> <<>>,
              metadata |-> NoPureShamirMetadata]
        ELSE [error |-> NoError,
              chunks |-> chunks,
              shares |-> allShares.shares,
              metadata |->
                  [scheme |-> "pure-shamir",
                   threshold |-> cfg.threshold,
                   totalShares |-> cfg.totalShares,
                   filename |-> file.name,
                   originalSize |-> Len(file.bytes),
                   processedSize |-> Len(processed.fileData),
                   chunkSize |-> CHUNK_SIZE,
                   totalChunks |-> Len(chunks),
                   usePassword |-> userPassword # "",
                   salt |-> processed.salt,
                   originalSHA256 |-> originalSHA256]]

\* the shares of all chunks, counted one by one whatever their ids
availableShareIdsPerShare(shares) ==
    UNION {{<<c, k>> : k \in 1 .. Len(shares[c])} : c \in 1 .. Len(shares)}

\* the ids of the shares of all chunks
availableShareIds(shares) ==
    UNION {{shares[c][k].id : k \in 1 .. Len(shares[c])} :
           c \in 1 .. Len(shares)}

\* n calls of recoverSecret
secretCalls(n) == [k \in 1 .. n |-> "recoverSecret"]

\* the loop over the chunks without its own count of the shares of a chunk
RECURSIVE recoverChunksLoopNoCount(_, _, _, _)
recoverChunksLoopNoCount(shares, metadata, chunkIndex, recoveredChunks) ==
    IF chunkIndex >= metadata.totalChunks
    THEN [error |-> NoError, chunks |-> recoveredChunks,
          calls |-> secretCalls(chunkIndex)]
    ELSE LET chunkShares ==
                 IF chunkIndex < Len(shares)
                 THEN [k \in 1 .. Len(shares[chunkIndex + 1]) |->
                          [id |-> shares[chunkIndex + 1][k].id,
                           value |-> shares[chunkIndex + 1][k].value]]
                 ELSE <<>>
             recoveredChunk == recoverSecret(chunkShares, metadata.threshold)
         IN  IF Threw(recoveredChunk)
             THEN [error |-> recoveredChunk.error, chunks |-> <<>>,
                   calls |-> secretCalls(chunkIndex + 1)]
             ELSE recoverChunksLoopNoCount(shares, metadata, chunkIndex + 1,
                      Append(recoveredChunks, recoveredChunk.value))

\* the loop over the chunks, from chunkIndex on
RECURSIVE recoverChunksLoop(_, _, _, _)
recoverChunksLoop(shares, metadata, chunkIndex, recoveredChunks) ==
    IF chunkIndex >= metadata.totalChunks
    THEN [error |-> NoError, chunks |-> recoveredChunks,
          calls |-> secretCalls(chunkIndex)]
    ELSE LET chunkShares ==
                 IF chunkIndex < Len(shares)
                 THEN [k \in 1 .. Len(shares[chunkIndex + 1]) |->
                          [id |-> shares[chunkIndex + 1][k].id,
                           value |-> shares[chunkIndex + 1][k].value]]
                 ELSE <<>>
             recoveredChunk == recoverSecret(chunkShares, metadata.threshold)
         IN  IF Len(chunkShares) < metadata.threshold
             THEN [error |->
                       Err("Insufficient shares for data chunk ${chunkIndex}, need at least ${metadata.threshold} shares, currently only have ${chunkShares.length}",
                           <<chunkIndex, metadata.threshold, Len(chunkShares)>>),
                   chunks |-> <<>>, calls |-> secretCalls(chunkIndex)]
             ELSE IF Threw(recoveredChunk)
             THEN [error |-> recoveredChunk.error, chunks |-> <<>>,
                   calls |-> secretCalls(chunkIndex + 1)]
             ELSE recoverChunksLoop(shares, metadata, chunkIndex + 1,
                      Append(recoveredChunks, recoveredChunk.value))

\* the password branch without its catch: every failure keeps its own error
decryptRecoveredUncaught(recoveredData, userPassword, metadata) ==
    LET iv == SubSeq(recoveredData, 1, IV_SIZE)
        encryptedData == SubSeq(recoveredData, IV_SIZE + 1, Len(recoveredData))
        decrypted == decryptDataWithPassword(encryptedData, userPassword,
                                             metadata.salt.bytes, iv)
    IN  IF Len(recoveredData) < IV_SIZE
        THEN [error |-> Err("Data corruption: insufficient length", <<>>),
              data |-> <<>>]
        ELSE decrypted

\* the try block of the password branch: every failure is rethrown as one
decryptRecovered(recoveredData, userPassword, metadata) ==
    LET iv == SubSeq(recoveredData, 1, IV_SIZE)
        encryptedData == SubSeq(recoveredData, IV_SIZE + 1, Len(recoveredData))
        decrypted == decryptDataWithPassword(encryptedData, userPassword,
                                             metadata.salt.bytes, iv)
    IN  IF Len(recoveredData) < IV_SIZE \/ Threw(decrypted)
        THEN [error |-> Err("Password error or data corruption", <<>>),
              data |-> <<>>]
        ELSE decrypted

\* recoverFilePureShamir without its check of the number of groups
recoverFilePureShamirAnyGroups(options, userPassword) ==
    LET shares == options.shares
        metadata == options.metadata
        recovered == recoverChunksLoop(shares, metadata, 0, <<>>)
        actualDataSize == IF metadata.usePassword
                          THEN metadata.processedSize
                          ELSE metadata.originalSize
        recoveredData == bigIntChunksToArrayBuffer(recovered.chunks,
                                                   actualDataSize)
        decrypted == decryptRecovered(recoveredData, userPassword, metadata)
    IN  IF metadata.usePassword /\ userPassword = ""
        THEN Failed(Err("This file is password protected, please provide the correct password",
                        <<>>), <<>>)
        ELSE IF ~metadata.usePassword /\ userPassword # ""
        THEN Failed(Err("This file is not password protected, no password needed",
                        <<>>), <<>>)
        ELSE IF Cardinality(availableShareIds(shares)) < metadata.threshold
        THEN Failed(Err("Insufficient share files, need at least ${metadata.threshold} different share files, currently only have ${availableShareIds.size}. Please upload more share files.",
                        <<metadata.threshold,
                          Cardinality(availableShareIds(shares))>>), <<>>)
        ELSE IF Threw(recovered)
        THEN Failed(recovered.error, recovered.calls)
        ELSE IF metadata.usePassword /\ userPassword # "" /\ metadata.salt.present
        THEN IF Threw(decrypted)
             THEN Failed(decrypted.error,
                         IF Len(recoveredData) < IV_SIZE
                         THEN recovered.calls
                         ELSE Append(recovered.calls, "decryptDataWithPassword"))
             ELSE createRecoveryResult(decrypted.data, metadata.filename,
                      Append(recovered.calls, "decryptDataWithPassword"))
        ELSE createRecoveryResult(recoveredData, metadata.filename,
                                  recovered.calls)

recoverFilePureShamir(options, userPassword) ==
    LET shares == options.shares
        metadata == options.metadata
        recovered == recoverChunksLoop(shares, metadata, 0, <<>>)
        actualDataSize == IF metadata.usePassword
                          THEN metadata.processedSize
                          ELSE metadata.originalSize
        recoveredData == bigIntChunksToArrayBuffer(recovered.chunks,
                                                   actualDataSize)
        decrypted == decryptRecovered(recoveredData, userPassword, metadata)
    IN  IF metadata.usePassword /\ userPassword = ""
        THEN Failed(Err("This file is password protected, please provide the correct password",
                        <<>>), <<>>)
        ELSE IF ~metadata.usePassword /\ userPassword # ""
        THEN Failed(Err("This file is not password protected, no password needed",
                        <<>>), <<>>)
        ELSE IF Len(shares) < metadata.totalChunks
        THEN Failed(Err("Share data incomplete", <<>>), <<>>)
        ELSE IF Cardinality(availableShareIds(shares)) < metadata.threshold
        THEN Failed(Err("Insufficient share files, need at least ${metadata.threshold} different share files, currently only have ${availableShareIds.size}. Please upload more share files.",
                        <<metadata.threshold,
                          Cardinality(availableShareIds(shares))>>), <<>>)
        ELSE IF Threw(recovered)
        THEN Failed(recovered.error, recovered.calls)
        ELSE IF metadata.usePassword /\ userPassword # "" /\ metadata.salt.present
        THEN IF Threw(decrypted)
             THEN Failed(decrypted.error,
                         IF Len(recoveredData) < IV_SIZE
                         THEN recovered.calls
                         ELSE Append(recovered.calls, "decryptDataWithPassword"))
             ELSE createRecoveryResult(decrypted.data, metadata.filename,
                      Append(recovered.calls, "decryptDataWithPassword"))
        ELSE createRecoveryResult(recoveredData, metadata.filename,
                                  recovered.calls)

(***************************************************************************)
(* Share files as text.  A text is either not JSON or the JSON value it    *)
(* denotes; JSON.parse gives that value back or throws.  A value has a     *)
(* type and, by type, a number, a string, items or fields.                 *)
(***************************************************************************)
JsUndefined == [type |-> "undefined"]

JsNull == [type |-> "null"]

JsNumber(n) == [type |-> "number", num |-> n]

JsString(s) == [type |-> "string", str |-> s]

JsArray(items) == [type |-> "array", items |-> items]

\* JSON.stringify leaves out the properties whose value is undefined
JsObject(fields) ==
    [type |-> "object",
     fields |-> [k \in {key \in DOMAIN fields : fields[key] # JsUndefined} |->
                    fields[k]]]

NotJson == [parseable |-> FALSE, json |-> JsUndefined]

JsonText(value) == [parseable |-> TRUE, json |-> value]

JSONparse(text) ==
    IF text.parseable THEN [error |-> NoError, value |-> text.json]
    ELSE [error |-> Err("SyntaxError", <<>>), value |-> JsUndefined]

\* value.key throws a TypeError for null and undefined
Nullish(value) == value.type \in {"null", "undefined"}

\* value.key, for the keys of share files, of a value that is not nullish
Get(value, key) ==
    IF value.type = "object" /\ key \in DOMAIN value.fields
    THEN value.fields[key]
    ELSE JsUndefined

\* the value counts as true in a condition
Truthy(value) ==
    CASE value.type \in {"undefined", "null"} -> FALSE
      [] value.type = "number" -> value.num # 0
      [] value.type = "string" -> Len(value.str) > 0
      [] OTHER -> TRUE

\* the try block of detectScheme
detectSchemeTry(shareFileData) ==
    LET parsed == JSONparse(shareFileData)
        shareFile == parsed.value
        metadata == Get(shareFile, "metadata")
        shareId == Get(shareFile, "shareId")
        shares == Get(shareFile, "shares")
    IN  IF Threw(parsed)
        THEN [error |-> parsed.error, value |-> JsUndefined]
        ELSE IF Nullish(shareFile)
        THEN [error |-> Err("TypeError", <<>>), value |-> JsUndefined]
        ELSE IF Truthy(metadata) /\ Truthy(Get(metadata, "scheme"))
        THEN [error |-> NoError, value |-> Get(metadata, "scheme")]
        ELSE IF Truthy(shareId) /\ Truthy(shares) /\ shares.type = "array"
        THEN [error |-> NoError, value |-> JsString("pure-shamir")]
        ELSE [error |-> NoError, value |-> JsString("hybrid")]

detectScheme(shareFileData) ==
    LET tried == detectSchemeTry(shareFileData)
    IN  IF Threw(tried)
        THEN [error |-> NoError, value |-> JsString("hybrid")]
        ELSE tried

(***************************************************************************)
(* Share files.  The text of a share file is the JSON value it denotes,    *)
(* with every BigInt written as the string of its decimal digits and iv    *)
(* and salt written in base64.  A base64 string is the sequence of its     *)
(* digits, each in 0 .. 63, and padding marks; as a byte has a quarter of  *)
(* the bits it has in the program, one digit here stands for the four      *)
(* digits that hold three bytes.                                           *)
(***************************************************************************)
\* BigInt.prototype.toString(): the decimal digits, most significant first
RECURSIVE toStringDecimal(_)
toStringDecimal(n) ==
    IF n < 10 THEN <<n>> ELSE Append(toStringDecimal(n \div 10), n % 10)

\* BigInt(string) for a string of decimal digits
RECURSIVE parseDecimal(_, _, _)
parseDecimal(str, k, acc) ==
    IF k > Len(str) THEN acc ELSE parseDecimal(str, k + 1, acc * 10 + str[k])

\* BigInt(string) that reads the first digit only
BigIntFirstDigit(str) == IF Len(str) = 0 THEN 0 ELSE str[1]

BigInt(str) == parseDecimal(str, 1, 0)

Base64Pad == 64

\* btoa, from byte i of the binary string on: three bytes make a digit, a
\* last group of one or two bytes is filled with zero bits and marked
RECURSIVE btoaLoop(_, _)
btoaLoop(binary, i) ==
    IF i > Len(binary) THEN <<>>
    ELSE LET at(k) == IF k <= Len(binary) THEN binary[k] ELSE 0
             digit == at(i) * ByteBase * ByteBase + at(i + 1) * ByteBase
                      + at(i + 2)
             missing == IF i + 2 <= Len(binary) THEN 0
                        ELSE i + 2 - Len(binary)
         IN  <<digit>> \o [k \in 1 .. missing |-> Base64Pad]
             \o btoaLoop(binary, i + 3)

btoa(binary) == btoaLoop(binary, 1)

\* atob, from character i on: a digit gives three bytes, less one for each
\* padding mark after it
RECURSIVE atobLoop(_, _)
atobLoop(base64, i) ==
    IF i > Len(base64) THEN <<>>
    ELSE LET digit == base64[i]
             marked(k) == k <= Len(base64) /\ base64[k] = Base64Pad
             missing == IF marked(i + 1) /\ marked(i + 2) THEN 2
                        ELSE IF marked(i + 1) THEN 1 ELSE 0
             bytes == <<digit \div (ByteBase * ByteBase),
                        (digit \div ByteBase) % ByteBase,
                        digit % ByteBase>>
         IN  SubSeq(bytes, 1, 3 - missing) \o atobLoop(base64, i + 1 + missing)

atob(base64) == atobLoop(base64, 1)

\* the binary string has the bytes as its character codes
arrayBufferToBase64(buffer) == btoa(buffer)

base64ToArrayBuffer(base64) == atob(base64)

\* metadata.salt ? arrayBufferToBase64(metadata.salt) : undefined
saltToBase64(salt) ==
    IF salt.present THEN Defined(arrayBufferToBase64(salt.bytes))
    ELSE Undefined

\* shareFile.metadata.salt ? base64ToArrayBuffer(...) : undefined; an empty
\* string counts as no salt
saltFromBase64(salt) ==
    IF salt.present /\ Len(salt.bytes) > 0
    THEN Defined(base64ToArrayBuffer(salt.bytes))
    ELSE Undefined

\* the parts of share shareId in all chunks, from chunkIndex on
RECURSIVE shareDataLoop(_, _, _, _)
shareDataLoop(shares, shareId, chunkIndex, shareData) ==
    IF chunkIndex >= Len(shares) THEN shareData
    ELSE LET chunkShares == shares[chunkIndex + 1]
             found == {k \in 1 .. Len(chunkShares) :
                          chunkShares[k].id = shareId}
             first == CHOOSE k \in found : \A k2 \in found : k <= k2
         IN  shareDataLoop(shares, shareId, chunkIndex + 1,
                 IF found # {} THEN Append(shareData, chunkShares[first])
                 ELSE shareData)

generatePureShamirShareFiles(shares, metadata) ==
    [shareId \in 1 .. metadata.totalShares |->
        [shareId |-> shareId,
         shares |-> shareDataLoop(shares, shareId, 0, <<>>),
         metadata |-> [metadata EXCEPT !.scheme = "pure-shamir",
                                       !.salt = saltToBase64(metadata.salt)]]]

generateShareFiles(shares, metadata) ==
    [k \in 1 .. Len(shares) |->
        [share |-> shares[k],
         metadata |-> [metadata EXCEPT
                          !.iv = arrayBufferToBase64(metadata.iv),
                          !.salt = saltToBase64(metadata.salt)]]]

\* the replacer of downloadJson: a bigint becomes value.toString()
replacer(value) == toStringDecimal(value)

\* downloadJson of a share file of the pure Shamir scheme: its text
downloadJsonPureShamir(data) ==
    [data EXCEPT !.shares =
        [k \in 1 .. Len(data.shares) |->
            [data.shares[k] EXCEPT !.value = replacer(data.shares[k].value)]]]

\* downloadJson of a share file of the hybrid scheme: its text
downloadJson(data) ==
    [data EXCEPT !.share.value = replacer(data.share.value)]

\* the reviver of the two parsers: the string under the key 'value' becomes
\* BigInt(value)
reviver(value) == BigInt(value)

\* no metadata yet (null)
NullMetadata == [null |-> TRUE]

\* the shares of one parsed file, from the k-th on, go to their chunks
RECURSIVE pushSharesLoop(_, _, _)
pushSharesLoop(fileShares, k, allShares) ==
    IF k > Len(fileShares) THEN allShares
    ELSE LET share == fileShares[k]
         IN  pushSharesLoop(fileShares, k + 1,
                 IF share.chunkIndex < Len(allShares)
                 THEN [allShares EXCEPT ![share.chunkIndex + 1] =
                          Append(@, share)]
                 ELSE allShares)

\* the loop over the texts, from the f-th on
RECURSIVE parsePureShamirLoop(_, _, _, _)
parsePureShamirLoop(shareFilesData, f, allShares, metadata) ==
    IF f > Len(shareFilesData)
    THEN [shares |-> allShares, metadata |-> metadata]
    ELSE LET text == shareFilesData[f]
             shareFile ==
                 [text EXCEPT !.shares =
                     [k \in 1 .. Len(text.shares) |->
                         [text.shares[k] EXCEPT
                             !.value = reviver(text.shares[k].value)]]]
             first == metadata = NullMetadata
             metadata1 ==
                 IF first
                 THEN [shareFile.metadata EXCEPT
                          !.salt = saltFromBase64(shareFile.metadata.salt)]
                 ELSE metadata
             allShares1 ==
                 IF first THEN [i \in 1 .. metadata1.totalChunks |-> <<>>]
                 ELSE allShares
         IN  parsePureShamirLoop(shareFilesData, f + 1,
                 pushSharesLoop(shareFile.shares, 1, allShares1), metadata1)

parsePureShamirShareFiles(shareFilesData) ==
    parsePureShamirLoop(shareFilesData, 1, <<>>, NullMetadata)

RECURSIVE parseShareFilesLoop(_, _, _, _)
parseShareFilesLoop(shareFilesData, f, shares, metadata) ==
    IF f > Len(shareFilesData)
    THEN [shares |-> shares, metadata |-> metadata]
    ELSE LET text == shareFilesData[f]
             shareFile == [text EXCEPT !.share.value = reviver(text.share.value)]
         IN  parseShareFilesLoop(shareFilesData, f + 1,
                 Append(shares, shareFile.share),
                 IF metadata = NullMetadata
                 THEN [shareFile.metadata EXCEPT
                          !.iv = base64ToArrayBuffer(shareFile.metadata.iv),
                          !.salt = saltFromBase64(shareFile.metadata.salt)]
                 ELSE metadata)

parseShareFiles(shareFilesData) ==
    parseShareFilesLoop(shareFilesData, 1, <<>>, NullMetadata)

(***************************************************************************)
(* The wallet backup.  A mnemonic is a string of ASCII characters, held as  *)
(* the sequence of its bytes; a share is displayed as the decimal digits   *)
(* of its id, a dash, and the decimal digits of its value.                 *)
(***************************************************************************)
\* Buffer.from(mnemonic, 'utf8').toString('hex'), then BigInt('0x' + hex)
mnemonicToBigInt(mnemonic) == parseHex(hexOfBytes(mnemonic, 1, <<>>), 1, 0)

\* the hex digits, a leading zero when their number is odd, and the bytes
\* they denote, read as text
bigIntToMnemonic(bigInt) ==
    LET digits == toStringHex(bigInt)
        hex == IF Len(digits) % 2 # 0 THEN <<0>> \o digits ELSE digits
    IN  [i \in 1 .. (Len(hex) \div 2) |->
            parseHex(substr(hex, (i - 1) * 2, 2), 1, 0)]

\* the character '-' in a string of decimal digits
Dash == 10

\* `${share.id}-${share.value.toString()}`
shareString(share) ==
    toStringDecimal(share.id) \o <<Dash>> \o toStringDecimal(share.value)

\* s.split('-'): the pieces between the dashes
RECURSIVE split(_, _, _)
split(str, k, piece) ==
    IF k > Len(str) THEN <<piece>>
    ELSE IF str[k] = Dash THEN <<piece>> \o split(str, k + 1, <<>>)
    ELSE split(str, k + 1, Append(piece, str[k]))

\* const [id, value] = s.split('-'); { id: parseInt(id), value: BigInt(value) }
\* for a string of two pieces of digits
parseShareString(str) ==
    LET pieces == split(str, 1, <<>>)
    IN  [id |-> parseDecimal(pieces[1], 1, 0), value |-> BigInt(pieces[2])]

\* const config = { threshold: 3, totalShares: 5 } and recoverSecret(.., 3)
WalletConfig == [threshold |-> 3, totalShares |-> 5]

\* the mnemonics that Wallet.createRandom gives and Wallet.fromPhrase
\* accepts: MnemonicLen letters, none of them the byte 0
Mnemonics == [1 .. MnemonicLen -> 1 .. (ByteBase - 1)]

NoWalletRecovery == [error |-> NoError, mnemonic |-> <<>>, imported |-> FALSE]

\* handleRecover for the three share fields: the empty ones are dropped, the
\* others parsed; the mnemonic rebuilt is handed to importWalletFromMnemonic,
\* which ends with Wallet.fromPhrase
handleRecover(inputs) ==
    LET filled == SelectSeq(inputs, LAMBDA str : str # <<>>)
        validShares == [k \in 1 .. Len(filled) |-> parseShareString(filled[k])]
        mnemonicBigInt == recoverSecret(validShares, WalletConfig.threshold)
        mnemonic == bigIntToMnemonic(mnemonicBigInt.value)
    IN  IF Threw(mnemonicBigInt)
        THEN [error |-> mnemonicBigInt.error, mnemonic |-> <<>>,
              imported |-> FALSE]
        ELSE [error |-> NoError, mnemonic |-> mnemonic,
              imported |-> mnemonic \in Mnemonics]

(***************************************************************************)
(* State.  The program keeps no state between calls; the state of the      *)
(* model is the last call of each operation: its inputs, the random        *)
(* outcomes it drew and its result.                                        *)
(***************************************************************************)
VARIABLES
    pc,           \* the operation that completed last ("idle" at the start)
    secret,       \* splitSecret: the secret argument
    config,       \* splitSecret: the config argument
    splitResult,  \* splitSecret: error or coefficients and shares
    recShares,    \* recoverSecret: the shares argument
    recThreshold, \* recoverSecret: the threshold argument
    recResult,    \* recoverSecret: error or value
    encBuffer,    \* arrayBufferToBigIntChunks: the buffer argument
    encChunks,    \* arrayBufferToBigIntChunks: the integers returned
    decSize,      \* bigIntChunksToArrayBuffer: the originalSize argument
    decoded,      \* bigIntChunksToArrayBuffer: the buffer returned
    hybridCall,     \* splitFile: the file, config and password arguments
    hybridSplit,    \* splitFile: error or shares, metadata and ciphertext
    hybridRecovery, \* recoverFile: the arguments
    hybridResult,   \* recoverFile: error or the recovered file
    pureCall,       \* splitFilePureShamir: the arguments
    pureSplit,      \* splitFilePureShamir: error or shares and metadata
    pureRecovery,   \* recoverFilePureShamir: the arguments, and the ids of
                    \* the shares they were built from
    pureResult,     \* recoverFilePureShamir: error or the recovered file
    detectCall,     \* detectScheme: the text argument
    detectResult,   \* detectScheme: the value returned or the error thrown
    shareFileTexts, \* downloadJson: the texts of the share files of a split
    parseCall,      \* parseShareFiles, parsePureShamirShareFiles: the texts
                    \* selected and their places among the share files
    parseResult,    \* the options returned by the parser
    fieldCall,      \* mod, modInverse: the arguments a and m
    fieldResult,    \* mod, modInverse: the integer returned
    walletMnemonic, \* handleCreate: the mnemonic of the new wallet
    walletShares,   \* WalletSetup: the shares displayed, as strings
    walletInputs,   \* RecoverWallet: the three share fields
    walletRecovered \* handleRecover: its outcome

coreVars == <<secret, config, splitResult, recShares, recThreshold, recResult>>

codecVars == <<encBuffer, encChunks, decSize, decoded>>

hybridVars == <<hybridCall, hybridSplit, hybridRecovery, hybridResult>>

pureVars == <<pureCall, pureSplit, pureRecovery, pureResult>>

textVars == <<detectCall, detectResult, shareFileTexts, parseCall, parseResult>>

fieldVars == <<fieldCall, fieldResult>>

walletVars == <<walletMnemonic, walletShares, walletInputs, walletRecovered>>

vars == <<pc, coreVars, codecVars, hybridVars, pureVars, textVars, fieldVars,
          walletVars>>

\* every value a 32-byte chunk or key can take, as an integer
ChunkValues == 0 .. (Pow(ByteBase, CHUNK_SIZE) - 1)

Field == 0 .. (getSecurePrime - 1)

Configs == [threshold : 0 .. (MaxShares + 1), totalShares : 0 .. MaxShares]

ValidConfig(cfg) == 2 <= cfg.threshold /\ cfg.threshold <= cfg.totalShares

\* the outcomes of the threshold - 1 calls of crypto.getRandomValues
Randoms(cfg) ==
    [1 .. (IF ValidConfig(cfg) THEN cfg.threshold - 1 ELSE 0)
        -> ByteSeqs(RANDOM_BYTES)]

\* the draws of a coefficient in the splits made for a file: two of the
\* outcomes of crypto.getRandomValues
FileDraws == {<<0, 1>>, <<3, 3>>}

\* sequences without repetition over the set S
InjSeqs(S) ==
    UNION {{f \in [1 .. k -> S] : \A i, j \in 1 .. k : i # j => f[i] # f[j]} :
           k \in 0 .. Cardinality(S)}

CoreInit ==
    /\ secret = 0
    /\ config = [threshold |-> 0, totalShares |-> 0]
    /\ splitResult = [error |-> NoError, coefficients |-> <<>>, shares |-> <<>>]
    /\ recShares = <<>>
    /\ recThreshold = 0
    /\ recResult = [error |-> NoError, value |-> -1]

CodecInit ==
    /\ encBuffer = <<>>
    /\ encChunks = <<>>
    /\ decSize = 0
    /\ decoded = <<>>

NoFile == [name |-> "", bytes |-> <<>>]

NoCall ==
    [file |-> NoFile, config |-> [threshold |-> 0, totalShares |-> 0],
     userPassword |-> ""]

HybridInit ==
    /\ hybridCall = NoCall
    /\ hybridSplit = [error |-> NoError, shares |-> <<>>,
                      metadata |-> NoHybridMetadata, encryptedData |-> <<>>,
                      key |-> <<>>]
    /\ hybridRecovery = [encryptedData |-> <<>>,
                         options |-> [shares |-> <<>>,
                                      metadata |-> NoHybridMetadata],
                         userPassword |-> ""]
    /\ hybridResult = Failed(NoError, <<>>)

PureInit ==
    /\ pureCall = NoCall
    /\ pureSplit = [error |-> NoError, chunks |-> <<>>, shares |-> <<>>,
                    metadata |-> NoPureShamirMetadata]
    /\ pureRecovery = [shareIds |-> <<>>,
                       options |-> [shares |-> <<>>,
                                    metadata |-> NoPureShamirMetadata],
                       userPassword |-> ""]
    /\ pureResult = Failed(NoError, <<>>)

TextInit ==
    /\ detectCall = NotJson
    /\ detectResult = [error |-> NoError, value |-> JsUndefined]
    /\ shareFileTexts = <<>>
    /\ parseCall = [upload |-> <<>>, shareFilesData |-> <<>>]
    /\ parseResult = [shares |-> <<>>, metadata |-> NullMetadata]

FieldInit ==
    /\ fieldCall = [a |-> 0, m |-> 1]
    /\ fieldResult = 0

\* no wallet yet, the three share fields empty
WalletInit ==
    /\ walletMnemonic = <<>>
    /\ walletShares = <<>>
    /\ walletInputs = <<<<>>, <<>>, <<>>>>
    /\ walletRecovered = NoWalletRecovery

Init ==
    /\ pc = "idle"
    /\ CoreInit
    /\ CodecInit
    /\ HybridInit
    /\ PureInit
    /\ TextInit
    /\ FieldInit
    /\ WalletInit

\* a caller splits a secret
SplitSecret ==
    /\ pc = "idle"
    /\ \E s \in ChunkValues, cfg \in Configs :
         \E random \in Randoms(cfg) :
            /\ secret' = s
            /\ config' = cfg
            /\ splitResult' = splitSecret(s, cfg, random)
    /\ pc' = "splitSecret"
    /\ UNCHANGED <<recShares, recThreshold, recResult, codecVars, hybridVars,
                   pureVars,
                   textVars,
                   fieldVars,
                   walletVars>>

\* a caller hands some of the produced shares, in some order, to recoverSecret
RecoverSecret ==
    /\ pc = "splitSecret"
    /\ ~Threw(splitResult)
    /\ \E pick \in InjSeqs(1 .. Len(splitResult.shares)) :
         LET shs == [k \in 1 .. Len(pick) |-> splitResult.shares[pick[k]]]
         IN  /\ recShares' = shs
             /\ recThreshold' = config.threshold
             /\ recResult' = recoverSecret(shs, config.threshold)
    /\ pc' = "recoverSecret"
    /\ UNCHANGED <<secret, config, splitResult, codecVars, hybridVars, pureVars,
                   textVars,
                   fieldVars,
                   walletVars>>

Next ==
    \/ SplitSecret
    \/ RecoverSecret

Spec == Init /\ [][Next]_vars

(***************************************************************************)
(* The chunk codec on its own.                                             *)
(***************************************************************************)
\* a buffer is encoded
Encode ==
    /\ pc = "idle"
    /\ \E b \in ByteSeqsUpTo(MaxBufLen) :
         /\ encBuffer' = b
         /\ encChunks' = arrayBufferToBigIntChunks(b)
    /\ pc' = "encode"
    /\ UNCHANGED <<decSize, decoded, coreVars, hybridVars, pureVars,
                   textVars,
                   fieldVars,
                   walletVars>>

\* the integers are decoded into a buffer of some size
Decode ==
    /\ pc = "encode"
    /\ \E size \in 0 .. MaxBufLen :
         /\ decSize' = size
         /\ decoded' = bigIntChunksToArrayBuffer(encChunks, size)
    /\ pc' = "decode"
    /\ UNCHANGED <<encBuffer, encChunks, coreVars, hybridVars, pureVars,
                   textVars,
                   fieldVars,
                   walletVars>>

CodecNext ==
    \/ Encode
    \/ Decode

SpecCodec == Init /\ [][CodecNext]_vars

(***************************************************************************)
(* The hybrid scheme: a file is encrypted and its key split, then          *)
(* recovered from the ciphertext, the metadata and some of the key shares. *)
(***************************************************************************)
\* files of at most n bytes
Files(n) == [name : {"secret.bin"}, bytes : ByteSeqsUpTo(n)]

\* the passwords a caller may give; "" is no password
Passwords == {"", "pw1", "pw2"}

SplitPasswords == {"", "pw1"}

\* the outcomes of the random calls of encryptData: a salt with a password,
\* a generated key without one, and the iv
RandomCalls(userPassword) ==
    IF userPassword # ""
    THEN [salt : ByteSeqs(SALT_SIZE), key : {<<>>}, iv : ByteSeqs(IV_SIZE)]
    ELSE [salt : {<<>>}, key : ByteSeqs(KEY_SIZE), iv : ByteSeqs(IV_SIZE)]

\* the draws of the coefficients in the splits made for a file
FileRandoms(cfg) ==
    [1 .. (IF ValidConfig(cfg) THEN cfg.threshold - 1 ELSE 0) -> FileDraws]

\* the shares a caller selects, in the order given by pick
selectShares(shares, pick) == [k \in 1 .. Len(pick) |-> shares[pick[k]]]

SplitFile ==
    /\ pc = "idle"
    /\ \E file \in Files(MaxSealedLen), cfg \in Configs,
          userPassword \in SplitPasswords :
         \E rnd \in RandomCalls(userPassword), random \in FileRandoms(cfg) :
            /\ hybridCall' = [file |-> file, config |-> cfg,
                              userPassword |-> userPassword]
            /\ hybridSplit' = splitFile(file, cfg, userPassword, rnd, random)
    /\ pc' = "splitFile"
    /\ UNCHANGED <<hybridRecovery, hybridResult, coreVars, codecVars, pureVars,
                   textVars,
                   fieldVars,
                   walletVars>>

\* a caller hands the ciphertext, the metadata and some of the key shares,
\* in some order, to recoverFile, with or without a password
RecoverFile ==
    /\ pc = "splitFile"
    /\ ~Threw(hybridSplit)
    /\ \E pick \in InjSeqs(1 .. Len(hybridSplit.shares)),
          userPassword \in Passwords :
         LET options == [shares |-> selectShares(hybridSplit.shares, pick),
                         metadata |-> hybridSplit.metadata]
         IN  /\ hybridRecovery' = [encryptedData |-> hybridSplit.encryptedData,
                                   options |-> options,
                                   userPassword |-> userPassword]
             /\ hybridResult' = recoverFile(hybridSplit.encryptedData, options,
                                            userPassword)
    /\ pc' = "recoverFile"
    /\ UNCHANGED <<hybridCall, hybridSplit, coreVars, codecVars, pureVars,
                   textVars,
                   fieldVars,
                   walletVars>>

HybridNext ==
    \/ SplitFile
    \/ RecoverFile

SpecHybrid == Init /\ [][HybridNext]_vars

\* splitSecret and recoverSecret on their own and inside the hybrid scheme
SharesNext ==
    \/ SplitSecret
    \/ RecoverSecret
    \/ SplitFile
    \/ RecoverFile

SpecShares == Init /\ [][SharesNext]_vars

(***************************************************************************)
(* The pure Shamir scheme: the chunks of a file, or of its iv and          *)
(* ciphertext, are split, then recovered from the shares of some ids.      *)
(***************************************************************************)
SplitFilePureShamir ==
    /\ pc = "idle"
    /\ \E userPassword \in SplitPasswords, cfg \in Configs :
         \E file \in Files(IF userPassword = "" THEN MaxFileLen
                           ELSE MaxSealedLen),
            rnd \in RandomCalls(userPassword) :
            LET fileData == processFileData(file, userPassword, rnd).fileData
                totalChunks == Len(arrayBufferToBigIntChunks(fileData))
            IN  \E randoms \in [1 .. totalChunks -> FileRandoms(cfg)] :
                   /\ pureCall' = [file |-> file, config |-> cfg,
                                   userPassword |-> userPassword]
                   /\ pureSplit' = splitFilePureShamir(file, cfg, userPassword,
                                                       rnd, randoms)
    /\ pc' = "splitFilePureShamir"
    /\ UNCHANGED <<pureRecovery, pureResult, coreVars, codecVars, hybridVars,
                   textVars,
                   fieldVars,
                   walletVars>>

\* a caller hands the metadata and, for every chunk, the shares of some ids,
\* in some order, to recoverFilePureShamir, with or without a password
RecoverFilePureShamir ==
    /\ pc = "splitFilePureShamir"
    /\ ~Threw(pureSplit)
    /\ \E pick \in InjSeqs(1 .. pureSplit.metadata.totalShares),
          userPassword \in Passwords :
         LET options ==
                 [shares |-> [c \in 1 .. Len(pureSplit.shares) |->
                                 selectShares(pureSplit.shares[c], pick)],
                  metadata |-> pureSplit.metadata]
         IN  /\ pureRecovery' = [shareIds |-> pick, options |-> options,
                                 userPassword |-> userPassword]
             /\ pureResult' = recoverFilePureShamir(options, userPassword)
    /\ pc' = "recoverFilePureShamir"
    /\ UNCHANGED <<pureCall, pureSplit, coreVars, codecVars, hybridVars,
                   textVars,
                   fieldVars,
                   walletVars>>

PureNext ==
    \/ SplitFilePureShamir
    \/ RecoverFilePureShamir

SpecPure == Init /\ [][PureNext]_vars

(***************************************************************************)
(* Direct calls.  recoverFile and recoverFilePureShamir take whatever      *)
(* options the caller built: shares that were never issued, share groups   *)
(* that differ from chunk to chunk or are missing, metadata that was       *)
(* edited.  The files split for these calls are a few samples.             *)
(***************************************************************************)
SampleFiles(userPassword) ==
    [name : {"secret.bin"},
     bytes : IF userPassword = "" THEN {<<>>, <<2>>, <<1, 3, 2>>}
             ELSE {<<2>>}]

SampleRandomCalls(userPassword) ==
    IF userPassword # ""
    THEN [salt : {<<1>>}, key : {<<>>}, iv : {<<0>>, <<3>>}]
    ELSE [salt : {<<>>}, key : {<<1, 2>>, <<3, 1>>}, iv : {<<2>>}]

\* the elements of a set of integers, in ascending order
RECURSIVE Ascending(_)
Ascending(S) ==
    IF S = {} THEN <<>>
    ELSE LET least == CHOOSE x \in S : \A y \in S : x <= y
         IN  <<least>> \o Ascending(S \ {least})

\* shares of a caller's own making
ForgedShares ==
    UNION {[1 .. n -> [id : 1 .. 2, value : {0, 7}]] : n \in 0 .. MaxShares}

\* the digest of some other data
OtherSHA256 == calculateSHA256(<<3, 3, 3, 3>>)

\* the metadata of a hybrid share file as it is, or edited
HybridMetadataEdits(metadata) ==
    {metadata,
     [metadata EXCEPT !.originalSHA256 = OtherSHA256],
     [metadata EXCEPT !.salt = Undefined]}

\* the metadata of a pure Shamir share file as it is, or edited
PureMetadataEdits(metadata) ==
    {metadata,
     [metadata EXCEPT !.originalSHA256 = OtherSHA256],
     [metadata EXCEPT !.salt = Undefined],
     [metadata EXCEPT !.processedSize = 0]}

SplitSampleFile ==
    /\ pc = "idle"
    /\ \E userPassword \in SplitPasswords, cfg \in Configs :
         \E file \in {f \in SampleFiles(userPassword) :
                         Len(f.bytes) <= MaxSealedLen},
            rnd \in SampleRandomCalls(userPassword),
            random \in FileRandoms(cfg) :
            /\ hybridCall' = [file |-> file, config |-> cfg,
                              userPassword |-> userPassword]
            /\ hybridSplit' = splitFile(file, cfg, userPassword, rnd, random)
    /\ pc' = "splitFile"
    /\ UNCHANGED <<hybridRecovery, hybridResult, coreVars, codecVars, pureVars,
                   textVars,
                   fieldVars,
                   walletVars>>

\* recoverFile with the ciphertext, metadata as it is or edited, and shares
\* that are issued ones in some order or forged ones
CallRecoverFile ==
    /\ pc = "splitFile"
    /\ ~Threw(hybridSplit)
    /\ \E shares \in {selectShares(hybridSplit.shares, pick) :
                         pick \in InjSeqs(1 .. Len(hybridSplit.shares))}
                     \cup ForgedShares,
          metadata \in HybridMetadataEdits(hybridSplit.metadata),
          userPassword \in Passwords :
         LET options == [shares |-> shares, metadata |-> metadata]
         IN  /\ hybridRecovery' = [encryptedData |-> hybridSplit.encryptedData,
                                   options |-> options,
                                   userPassword |-> userPassword]
             /\ hybridResult' = recoverFile(hybridSplit.encryptedData, options,
                                            userPassword)
    /\ pc' = "recoverFile"
    /\ UNCHANGED <<hybridCall, hybridSplit, coreVars, codecVars, pureVars,
                   textVars,
                   fieldVars,
                   walletVars>>

SplitSampleFilePureShamir ==
    /\ pc = "idle"
    /\ \E userPassword \in SplitPasswords, cfg \in Configs :
         \E file \in SampleFiles(userPassword),
            rnd \in SampleRandomCalls(userPassword) :
            LET fileData == processFileData(file, userPassword, rnd).fileData
                totalChunks == Len(arrayBufferToBigIntChunks(fileData))
            IN  \E randoms \in [1 .. totalChunks -> FileRandoms(cfg)] :
                   /\ pureCall' = [file |-> file, config |-> cfg,
                                   userPassword |-> userPassword]
                   /\ pureSplit' = splitFilePureShamir(file, cfg, userPassword,
                                                       rnd, randoms)
    /\ pc' = "splitFilePureShamir"
    /\ UNCHANGED <<pureRecovery, pureResult, coreVars, codecVars, hybridVars,
                   textVars,
                   fieldVars,
                   walletVars>>

\* recoverFilePureShamir with metadata as it is or edited and the groups of
\* the first chunks: the shares of the ids in first for chunk 0, of the ids
\* in rest for every later chunk
CallRecoverFilePureShamir ==
    /\ pc = "splitFilePureShamir"
    /\ ~Threw(pureSplit)
    /\ \E groups \in 0 .. Len(pureSplit.shares),
          first \in SUBSET (1 .. pureSplit.metadata.totalShares),
          rest \in SUBSET (1 .. pureSplit.metadata.totalShares),
          metadata \in PureMetadataEdits(pureSplit.metadata),
          userPassword \in Passwords :
         LET options ==
                 [shares |-> [c \in 1 .. groups |->
                                 selectShares(pureSplit.shares[c],
                                     Ascending(IF c = 1 THEN first ELSE rest))],
                  metadata |-> metadata]
         IN  /\ pureRecovery' = [shareIds |-> Ascending(first),
                                 options |-> options,
                                 userPassword |-> userPassword]
             /\ pureResult' = recoverFilePureShamir(options, userPassword)
    /\ pc' = "recoverFilePureShamir"
    /\ UNCHANGED <<pureCall, pureSplit, coreVars, codecVars, hybridVars,
                   textVars,
                   fieldVars,
                   walletVars>>

CallHybridNext ==
    \/ SplitSampleFile
    \/ CallRecoverFile

SpecCallHybrid == Init /\ [][CallHybridNext]_vars

CallPureNext ==
    \/ SplitSampleFilePureShamir
    \/ CallRecoverFilePureShamir

SpecCallPure == Init /\ [][CallPureNext]_vars

\* direct calls of both schemes
CallNext ==
    \/ SplitSampleFile
    \/ CallRecoverFile
    \/ SplitSampleFilePureShamir
    \/ CallRecoverFilePureShamir

SpecCall == Init /\ [][CallNext]_vars

(***************************************************************************)
(* detectScheme on the text of a file the user selected.                   *)
(***************************************************************************)
\* values of metadata.scheme: none, falsy ones, the two tags, others
SchemeValues ==
    {JsUndefined, JsNull, JsNumber(0), JsNumber(1), JsString(""),
     JsString("hybrid"), JsString("pure-shamir"), JsString("xyz")}

MetadataValues ==
    {JsUndefined, JsNull, JsNumber(1), JsString("m")}
    \cup {JsObject([scheme |-> scheme]) : scheme \in SchemeValues}

ShareIdValues == {JsUndefined, JsNumber(0), JsNumber(1), JsString("1")}

SharesValues ==
    {JsUndefined, JsNull, JsString("s"), JsArray(<<>>),
     JsArray(<<JsNumber(1)>>), JsObject([id |-> JsNumber(1)])}

\* the texts a user may select: not JSON, JSON that is not an object, and
\* objects with or without metadata, shareId and shares
DetectTexts ==
    {NotJson}
    \cup {JsonText(value) :
             value \in {JsNull, JsNumber(5), JsString("hybrid"), JsArray(<<>>)}}
    \cup {JsonText(JsObject([metadata |-> metadata, shareId |-> shareId,
                             shares |-> shares])) :
             metadata \in MetadataValues, shareId \in ShareIdValues,
             shares \in SharesValues}

DetectScheme ==
    /\ pc = "idle"
    /\ \E shareFileData \in DetectTexts :
          /\ detectCall' = shareFileData
          /\ detectResult' = detectScheme(shareFileData)
    /\ pc' = "detectScheme"
    /\ UNCHANGED <<shareFileTexts, parseCall, parseResult, coreVars, codecVars,
                   hybridVars, pureVars,
                   fieldVars,
                   walletVars>>

DetectNext == DetectScheme

SpecDetect == Init /\ [][DetectNext]_vars

(***************************************************************************)
(* Share files: after a split the share files are generated and written    *)
(* as text; later some of them are selected, in some order, and parsed.    *)
(***************************************************************************)
DownloadShareFiles ==
    /\ pc = "splitFile"
    /\ ~Threw(hybridSplit)
    /\ LET shareFiles == generateShareFiles(hybridSplit.shares,
                                            hybridSplit.metadata)
       IN  shareFileTexts' = [k \in 1 .. Len(shareFiles) |->
                                 downloadJson(shareFiles[k])]
    /\ pc' = "downloadJson"
    /\ UNCHANGED <<parseCall, parseResult, detectCall, detectResult, coreVars,
                   codecVars, hybridVars, pureVars,
                   fieldVars,
                   walletVars>>

ParseShareFiles ==
    /\ pc = "downloadJson"
    /\ \E upload \in InjSeqs(1 .. Len(shareFileTexts)) :
         LET shareFilesData == selectShares(shareFileTexts, upload)
         IN  /\ parseCall' = [upload |-> upload,
                              shareFilesData |-> shareFilesData]
             /\ parseResult' = parseShareFiles(shareFilesData)
    /\ pc' = "parseShareFiles"
    /\ UNCHANGED <<shareFileTexts, detectCall, detectResult, coreVars,
                   codecVars, hybridVars, pureVars,
                   fieldVars,
                   walletVars>>

DownloadPureShamirShareFiles ==
    /\ pc = "splitFilePureShamir"
    /\ ~Threw(pureSplit)
    /\ LET shareFiles == generatePureShamirShareFiles(pureSplit.shares,
                                                      pureSplit.metadata)
       IN  shareFileTexts' = [k \in 1 .. Len(shareFiles) |->
                                 downloadJsonPureShamir(shareFiles[k])]
    /\ pc' = "downloadJsonPureShamir"
    /\ UNCHANGED <<parseCall, parseResult, detectCall, detectResult, coreVars,
                   codecVars, hybridVars, pureVars,
                   fieldVars,
                   walletVars>>

ParsePureShamirShareFiles ==
    /\ pc = "downloadJsonPureShamir"
    /\ \E upload \in InjSeqs(1 .. Len(shareFileTexts)) :
         LET shareFilesData == selectShares(shareFileTexts, upload)
         IN  /\ parseCall' = [upload |-> upload,
                              shareFilesData |-> shareFilesData]
             /\ parseResult' = parsePureShamirShareFiles(shareFilesData)
    /\ pc' = "parsePureShamirShareFiles"
    /\ UNCHANGED <<shareFileTexts, detectCall, detectResult, coreVars,
                   codecVars, hybridVars, pureVars,
                   fieldVars,
                   walletVars>>

ShareFilesNext ==
    \/ SplitSampleFile
    \/ DownloadShareFiles
    \/ ParseShareFiles
    \/ SplitSampleFilePureShamir
    \/ DownloadPureShamirShareFiles
    \/ ParsePureShamirShareFiles

SpecShareFiles == Init /\ [][ShareFilesNext]_vars

(***************************************************************************)
(* Claims about splitSecret and recoverSecret.                             *)
(***************************************************************************)
SplitOk == pc \in {"splitSecret", "recoverSecret"} /\ ~Threw(splitResult)

\* the ids of the shares handed to recoverSecret, in order
RecIds == [k \in 1 .. Len(recShares) |-> recShares[k].id]

\* C1: split/recover round trip.  For every secret in [0, prime), every
\* valid config and every draw of the coefficients, recoverSecret applied to
\* the first threshold shares of splitSecret's result returns the secret.
C1_RoundTrip ==
    ( /\ pc = "recoverSecret"
      /\ secret \in Field
      /\ recShares = SubSeq(splitResult.shares, 1, config.threshold) )
    => ( /\ ~Threw(recResult)
         /\ recResult.value = secret )

\* the round trip of the largest field element with a polynomial of degree 2
C1_Witness ==
    /\ pc = "recoverSecret"
    /\ secret = getSecurePrime - 1
    /\ config = [threshold |-> 3, totalShares |-> 3]
    /\ splitResult.coefficients[3] # 0
    /\ recShares = SubSeq(splitResult.shares, 1, 3)
    /\ recResult.value = secret

\* C2: any-subset property.  For one output of splitSecret, recoverSecret
\* applied to any threshold-sized selection of the produced shares, in any
\* order, returns the value it returns for the first threshold shares, which
\* is the secret when the secret is in [0, prime).
C2_AnySubset ==
    ( /\ pc = "recoverSecret"
      /\ Len(recShares) = config.threshold )
    => ( /\ ~Threw(recResult)
         /\ recResult.value =
              recoverSecret(SubSeq(splitResult.shares, 1, config.threshold),
                            config.threshold).value
         /\ (secret \in Field => recResult.value = secret) )

\* shares 3 and 1 of a 2-of-3 split, in that order, give back the secret
C2_Witness ==
    /\ pc = "recoverSecret"
    /\ config = [threshold |-> 2, totalShares |-> 3]
    /\ RecIds = <<3, 1>>
    /\ secret \in Field /\ secret # 0
    /\ recResult.value = secret

\* C3: insufficiency.  recoverSecret called with fewer shares than threshold
\* fails with an error and returns no value; recoverFile called with fewer
\* shares than metadata.threshold fails with an error before any key recovery
\* or decryption step and returns no file.
C3_Insufficiency ==
    /\ (pc = "recoverSecret" /\ Len(recShares) < recThreshold)
       => ( /\ Threw(recResult)
            /\ recResult.value = -1 )
    /\ ( /\ pc = "recoverFile"
         /\ Len(hybridRecovery.options.shares)
              < hybridRecovery.options.metadata.threshold )
       => ( /\ Threw(hybridResult)
            /\ hybridResult.calls = <<>>
            /\ hybridResult.recoveredSHA256 = <<>> )

\* recoverFile is given two key shares of a 3-of-3 split, and no password
C3_Witness ==
    /\ pc = "recoverFile"
    /\ hybridCall.userPassword = ""
    /\ hybridRecovery.userPassword = ""
    /\ hybridRecovery.options.metadata.threshold = 3
    /\ Len(hybridRecovery.options.shares) = 2
    /\ hybridResult.error =
         Err("Need at least ${metadata.threshold} shares to recover file", <<3>>)
    /\ hybridResult.calls = <<>>

\* C4: config validation.  splitSecret fails, returning no shares, exactly
\* when threshold < 2 or threshold > totalShares; for every other config,
\* threshold = totalShares included, it returns shares.
C4_ConfigValidation ==
    pc = "splitSecret"
    => /\ Threw(splitResult) <=>
            (config.threshold < 2 \/ config.threshold > config.totalShares)
       /\ Threw(splitResult) => splitResult.shares = <<>>
       /\ ~Threw(splitResult) => splitResult.shares # <<>>

\* a split at the boundary threshold = totalShares succeeds
C4_Witness ==
    /\ pc = "splitSecret"
    /\ config = [threshold |-> 3, totalShares |-> 3]
    /\ ~Threw(splitResult)
    /\ Len(splitResult.shares) = 3

\* f(x) = sum of c[k] * x^(k-1), reduced into [0, prime)
RECURSIVE PolySum(_, _, _)
PolySum(c, x, k) ==
    IF k > Len(c) THEN 0 ELSE c[k] * Pow(x, k - 1) + PolySum(c, x, k + 1)

FieldPolyValue(c, x) == PolySum(c, x, 1) % getSecurePrime

\* C6: shape of a split.  A successful splitSecret returns exactly
\* totalShares shares, in order, with ids 1..totalShares, each value being
\* f(id) reduced into [0, prime) for one polynomial f with threshold
\* coefficients (degree < threshold) whose constant term is the secret.
C6_SplitShape ==
    (pc = "splitSecret" /\ ~Threw(splitResult))
    => /\ Len(splitResult.shares) = config.totalShares
       /\ Len(splitResult.coefficients) = config.threshold
       /\ splitResult.coefficients[1] = secret
       /\ \A i \in 1 .. Len(splitResult.shares) :
            /\ splitResult.shares[i].id = i
            /\ splitResult.shares[i].value \in Field
            /\ splitResult.shares[i].value =
                 FieldPolyValue(splitResult.coefficients, i)
       /\ (secret \in Field =>
             FieldPolyValue(splitResult.coefficients, 0) = secret)

\* a 2-of-3 split with a non-constant polynomial
C6_Witness ==
    /\ pc = "splitSecret"
    /\ config = [threshold |-> 2, totalShares |-> 3]
    /\ ~Threw(splitResult)
    /\ splitResult.coefficients[2] > 1
    /\ secret = 5
    /\ splitResult.shares[3].value = FieldPolyValue(splitResult.coefficients, 3)

ValidConfigs == {cfg \in Configs : ValidConfig(cfg)}

\* the sets of share ids an adversary below the threshold may hold
SmallIdSets(cfg) ==
    {I \in SUBSET (1 .. cfg.totalShares) : Cardinality(I) <= cfg.threshold - 1}

\* the shares with ids in I, as <<id, value>> (share i of a split has id i)
SharesAt(shs, I) == {<<shs[i].id, shs[i].value>> : i \in I}

\* every share list splitSecret can return for (s, cfg), over all draws
SplitOutputs(cfg, s) ==
    {splitSecret(s, cfg, random).shares : random \in Randoms(cfg)}

\* the values the holder of the shares with ids in I can see, for each I
\* below the threshold, over all splits of s under cfg, as <<I, values>>
ViewsOf(cfg, s) ==
    {<<I, SharesAt(shs, I)>> :
        shs \in SplitOutputs(cfg, s), I \in SmallIdSets(cfg)}

\* one row <<cfg, s, ViewsOf(cfg, s)>> for each valid config and secret
SplitViews == {<<cfg, s, ViewsOf(cfg, s)>> : cfg \in ValidConfigs, s \in Field}

\* the holder of the shares with ids in I can see view when s2 is split
CanView(cfg, s2, I, view) ==
    \E row \in SplitViews :
        row[1] = cfg /\ row[2] = s2 /\ <<I, view>> \in row[3]

\* C5: threshold secrecy.  For every valid config, every set I of at most
\* threshold - 1 share ids and every two secrets s, s2 in [0, prime), the
\* share values splitSecret can produce at I for s can be produced at I for
\* s2 as well: the values at I of every split that is made can come from a
\* split of any other secret.
C5_ThresholdSecrecy ==
    (pc = "splitSecret" /\ ~Threw(splitResult) /\ secret \in Field)
    => \A I \in SmallIdSets(config) : \A s2 \in Field :
          CanView(config, s2, I, SharesAt(splitResult.shares, I))

\* a 3-of-3 split of which two shares are seen
C5_Witness ==
    /\ pc = "splitSecret"
    /\ ~Threw(splitResult)
    /\ secret = 7
    /\ config = [threshold |-> 3, totalShares |-> 3]
    /\ {1, 3} \in SmallIdSets(config)
    /\ splitResult.shares[1].value # splitResult.shares[3].value
    /\ CanView(config, 0, {1, 3}, SharesAt(splitResult.shares, {1, 3}))

(***************************************************************************)
(* Claims about the chunk codec.                                           *)
(***************************************************************************)
\* C9: chunk codec round trip.  For every buffer b (empty, a multiple of
\* the chunk size, or needing padding) decoding the encoding of b with
\* originalSize = length of b gives b back byte for byte.
C9_CodecRoundTrip ==
    (pc = "decode" /\ decSize = Len(encBuffer)) => decoded = encBuffer

\* a buffer of one full chunk and a padded one, with a last byte that is not 0
C9_Witness ==
    /\ pc = "decode"
    /\ Len(encBuffer) = CHUNK_SIZE + 1
    /\ decSize = Len(encBuffer)
    /\ encBuffer[1] # encBuffer[2]
    /\ encBuffer[CHUNK_SIZE + 1] # 0
    /\ decoded = encBuffer

\* byte j (from 0) of block k (from 0) of b; 0 past the end of b
BlockByte(b, k, j) ==
    IF CHUNK_SIZE * k + j < Len(b) THEN b[CHUNK_SIZE * k + j + 1] ELSE 0

RECURSIVE BlockSum(_, _, _)
BlockSum(b, k, j) ==
    IF j >= CHUNK_SIZE
    THEN 0
    ELSE BlockByte(b, k, j) * Pow(ByteBase, j) + BlockSum(b, k, j + 1)

\* C10: chunk encoding is bit-exact.  The encoding of b has
\* ceil(len(b) / CHUNK_SIZE) integers, none for the empty buffer, and
\* integer k is the sum over j of byte(CHUNK_SIZE * k + j) * ByteBase^j with
\* the bytes past the end of b counted as 0 (little-endian, zero padding on
\* the high end).
C10_ChunkEncoding ==
    pc = "encode"
    => /\ Len(encChunks) = (Len(encBuffer) + CHUNK_SIZE - 1) \div CHUNK_SIZE
       /\ (encBuffer = <<>> => encChunks = <<>>)
       /\ \A k \in 1 .. Len(encChunks) :
            encChunks[k] = BlockSum(encBuffer, k - 1, 0)

\* a buffer whose last block is short and whose bytes tell the order apart
C10_Witness ==
    /\ pc = "encode"
    /\ encBuffer = <<1, 2, 3>>
    /\ encChunks = <<1 + 2 * ByteBase, 3>>

(***************************************************************************)
(* Claims about the two file schemes.                                      *)
(***************************************************************************)
\* a recovery of the file that was split, under a valid config, from the
\* shares of threshold ids and with the password of the split
PureRoundTripCase ==
    /\ pc = "recoverFilePureShamir"
    /\ ValidConfig(pureCall.config)
    /\ Len(pureRecovery.shareIds) = pureCall.config.threshold
    /\ pureRecovery.userPassword = pureCall.userPassword

\* C7: pure Shamir round trip.  For every file and every valid config,
\* splitFilePureShamir followed by recoverFilePureShamir on the shares of any
\* threshold ids, with the same password or none on both sides, returns the
\* bytes of the file.
C7_PureRoundTrip ==
    PureRoundTripCase
    => ( /\ ~Threw(pureResult)
         /\ pureResult.data = pureCall.file.bytes )

\* the round trip of C7 when at least one integer was split and every
\* integer that was split is below the prime
PureRoundTripBelowPrime ==
    ( /\ PureRoundTripCase
      /\ pureSplit.chunks # <<>>
      /\ \A k \in 1 .. Len(pureSplit.chunks) :
            pureSplit.chunks[k] < getSecurePrime )
    => ( /\ ~Threw(pureResult)
         /\ pureResult.data = pureCall.file.bytes )

\* a recovery of the file that was split without a password, from threshold
\* of its key shares and without a password
HybridRoundTripCase ==
    /\ pc = "recoverFile"
    /\ hybridCall.userPassword = ""
    /\ hybridRecovery.userPassword = ""
    /\ Len(hybridRecovery.options.shares) = hybridCall.config.threshold

\* C8: hybrid round trip without password.  For every file, valid config and
\* generated key, splitFile followed by recoverFile on the ciphertext, the
\* metadata and any threshold of the key shares returns the bytes of the
\* file with recoveredSHA256 equal to metadata.originalSHA256, and the key
\* recovered from the shares, as KEY_SIZE bytes, is the key that was split.
C8_HybridRoundTrip ==
    HybridRoundTripCase
    => ( /\ ~Threw(hybridResult)
         /\ hybridResult.data = hybridCall.file.bytes
         /\ hybridResult.recoveredSHA256 = hybridSplit.metadata.originalSHA256
         /\ bigIntToArrayBuffer(
                recoverSecret(hybridRecovery.options.shares,
                              hybridCall.config.threshold).value,
                KEY_SIZE) = hybridSplit.key )

\* the round trip of C8 when the key that was split is below the prime
HybridRoundTripBelowPrime ==
    (HybridRoundTripCase /\ arrayBufferToBigInt(hybridSplit.key) < getSecurePrime)
    => ( /\ ~Threw(hybridResult)
         /\ hybridResult.data = hybridCall.file.bytes
         /\ hybridResult.recoveredSHA256 = hybridSplit.metadata.originalSHA256 )

(***************************************************************************)
(* Claims about the checks of recoverFile and recoverFilePureShamir.       *)
(***************************************************************************)
HybridOptions == hybridRecovery.options

PureOptions == pureRecovery.options

\* the call needed a password and got none
HybridPasswordMissing ==
    HybridOptions.metadata.usePassword /\ hybridRecovery.userPassword = ""

\* the call got a password it had no use for
HybridPasswordSurplus ==
    ~HybridOptions.metadata.usePassword /\ hybridRecovery.userPassword # ""

PurePasswordMissing ==
    PureOptions.metadata.usePassword /\ pureRecovery.userPassword = ""

PurePasswordSurplus ==
    ~PureOptions.metadata.usePassword /\ pureRecovery.userPassword # ""

HybridPasswordRequiredError ==
    Err("This file is password encrypted, please provide the correct password",
        <<>>)

HybridPasswordNotExpectedError ==
    Err("This file is not password encrypted, no password needed", <<>>)

PurePasswordRequiredError ==
    Err("This file is password protected, please provide the correct password",
        <<>>)

PurePasswordNotExpectedError ==
    Err("This file is not password protected, no password needed", <<>>)

\* what recoverFilePureShamir does about the password, in every call
PurePasswordEnforced ==
    pc = "recoverFilePureShamir" =>
        /\ PurePasswordMissing =>
               /\ pureResult.error = PurePasswordRequiredError
               /\ pureResult.data = <<>>
        /\ PurePasswordSurplus =>
               /\ pureResult.error = PurePasswordNotExpectedError
               /\ pureResult.data = <<>>

\* C11 as stated: in both schemes a missing password fails with the
\* password-required error and an unexpected one with the
\* password-not-expected error, and no data is returned
C11_PasswordEnforcedAlways ==
    /\ PurePasswordEnforced
    /\ pc = "recoverFile" =>
           /\ HybridPasswordMissing =>
                  /\ hybridResult.error = HybridPasswordRequiredError
                  /\ hybridResult.data = <<>>
           /\ HybridPasswordSurplus =>
                  /\ hybridResult.error = HybridPasswordNotExpectedError
                  /\ hybridResult.data = <<>>

\* C11: recoverFilePureShamir fails with the password-required error when
\* metadata.usePassword is true and no password is given, and with the
\* password-not-expected error when it is false and a password is given;
\* recoverFile does the same when it has at least metadata.threshold shares,
\* and with fewer it fails with its share count error; no data is returned
\* in any of these cases
C11_PasswordEnforced ==
    /\ PurePasswordEnforced
    /\ pc = "recoverFile" /\ (HybridPasswordMissing \/ HybridPasswordSurplus) =>
           /\ Threw(hybridResult)
           /\ hybridResult.data = <<>>
           /\ hybridResult.error =
                  IF Len(HybridOptions.shares) < HybridOptions.metadata.threshold
                  THEN Err("Need at least ${metadata.threshold} shares to recover file",
                           <<HybridOptions.metadata.threshold>>)
                  ELSE IF HybridPasswordMissing
                  THEN HybridPasswordRequiredError
                  ELSE HybridPasswordNotExpectedError

\* recoverFile has enough shares of a password file and no password
C11_Witness ==
    /\ pc = "recoverFile"
    /\ HybridPasswordMissing
    /\ Len(HybridOptions.shares) >= HybridOptions.metadata.threshold
    /\ hybridResult.error = HybridPasswordRequiredError

\* the elements of a sequence
Range(seq) == {seq[k] : k \in 1 .. Len(seq)}

\* the password check of recoverFilePureShamir passes
PurePasswordOk == ~PurePasswordMissing /\ ~PurePasswordSurplus

\* the number of shares handed in for chunk c (from 0)
GroupSize(c) ==
    IF c < Len(PureOptions.shares) THEN Len(PureOptions.shares[c + 1]) ELSE 0

\* the chunks that have fewer shares than the threshold
ShortChunks ==
    {c \in 0 .. (PureOptions.metadata.totalChunks - 1) :
        GroupSize(c) < PureOptions.metadata.threshold}

FirstShortChunk == CHOOSE c \in ShortChunks : \A c2 \in ShortChunks : c <= c2

PerChunkError(c) ==
    Err("Insufficient shares for data chunk ${chunkIndex}, need at least ${metadata.threshold} shares, currently only have ${chunkShares.length}",
        <<c, PureOptions.metadata.threshold, GroupSize(c)>>)

\* C12 as stated: recoverFilePureShamir fails with a per-chunk error
\* whenever some chunk has fewer than threshold shares, and returns no data
C12_PerChunkAlways ==
    pc = "recoverFilePureShamir" /\ ShortChunks # {} =>
        /\ \E c \in ShortChunks : pureResult.error = PerChunkError(c)
        /\ pureResult.data = <<>>

\* C12: when some chunk has fewer than threshold shares,
\* recoverFilePureShamir never returns data; when moreover the password
\* check passes, no chunk group is missing and the distinct ids over all
\* chunks are at least threshold, it fails with the per-chunk error of the
\* first such chunk, after having recovered the chunks before it
C12_PerChunk ==
    pc = "recoverFilePureShamir" /\ ShortChunks # {} =>
        /\ Threw(pureResult)
        /\ pureResult.data = <<>>
        /\ ( /\ PurePasswordOk
             /\ Len(PureOptions.shares) >= PureOptions.metadata.totalChunks
             /\ Cardinality(availableShareIds(PureOptions.shares))
                    >= PureOptions.metadata.threshold )
           => /\ pureResult.error = PerChunkError(FirstShortChunk)
              /\ pureResult.calls = secretCalls(FirstShortChunk)

\* chunk 0 comes with three ids and chunk 1 with one, the threshold is 2
C12_Witness ==
    /\ pc = "recoverFilePureShamir"
    /\ PureOptions.metadata.threshold = 2
    /\ PureOptions.metadata.totalChunks = 2
    /\ Len(PureOptions.shares) = 2
    /\ GroupSize(0) = 3
    /\ GroupSize(1) = 1
    /\ pureResult.error = PerChunkError(1)
    /\ pureResult.calls = <<"recoverSecret">>

\* the ids that occur in the share groups handed in
DistinctIds ==
    UNION {{share.id : share \in Range(PureOptions.shares[c])} :
           c \in 1 .. Len(PureOptions.shares)}

DistinctIdError ==
    Err("Insufficient share files, need at least ${metadata.threshold} different share files, currently only have ${availableShareIds.size}. Please upload more share files.",
        <<PureOptions.metadata.threshold, Cardinality(DistinctIds)>>)

\* C13 as stated: recoverFilePureShamir fails with the distinct-id error,
\* which reports the threshold and the number of distinct ids, whenever
\* fewer than threshold distinct ids are handed in
C13_DistinctIdsAlways ==
    ( /\ pc = "recoverFilePureShamir"
      /\ Cardinality(DistinctIds) < PureOptions.metadata.threshold )
    => pureResult.error = DistinctIdError

\* C13: when the share groups hold fewer than threshold distinct ids,
\* recoverFilePureShamir fails; when moreover the password check passes and
\* no chunk group is missing, the error is the distinct-id error and
\* reports the threshold and the number of distinct ids
C13_DistinctIds ==
    ( /\ pc = "recoverFilePureShamir"
      /\ Cardinality(DistinctIds) < PureOptions.metadata.threshold )
    => /\ Threw(pureResult)
       /\ pureResult.data = <<>>
       /\ ( /\ PurePasswordOk
            /\ Len(PureOptions.shares) >= PureOptions.metadata.totalChunks )
          => /\ pureResult.error = DistinctIdError
             /\ pureResult.error.args =
                    <<PureOptions.metadata.threshold, Cardinality(DistinctIds)>>
             /\ pureResult.calls = <<>>

\* two groups hold the share of one and the same id, the threshold is 2
C13_Witness ==
    /\ pc = "recoverFilePureShamir"
    /\ PurePasswordOk
    /\ PureOptions.metadata.threshold = 2
    /\ Len(PureOptions.shares) = 2
    /\ GroupSize(0) = 1
    /\ GroupSize(1) = 1
    /\ Cardinality(DistinctIds) = 1
    /\ pureResult.error = DistinctIdError
    /\ pureResult.error.args = <<2, 1>>

IncompleteError == Err("Share data incomplete", <<>>)

\* C14 as stated: recoverFilePureShamir fails with the incomplete-share-data
\* error whenever the share array has fewer groups than metadata.totalChunks,
\* and returns no data
C14_IncompleteAlways ==
    ( /\ pc = "recoverFilePureShamir"
      /\ Len(PureOptions.shares) < PureOptions.metadata.totalChunks )
    => /\ pureResult.error = IncompleteError
       /\ pureResult.data = <<>>

\* C14: when the share array has fewer groups than metadata.totalChunks,
\* recoverFilePureShamir fails and returns no data; when moreover the
\* password check passes, the error is the incomplete-share-data error and
\* no chunk has been recovered
C14_Incomplete ==
    ( /\ pc = "recoverFilePureShamir"
      /\ Len(PureOptions.shares) < PureOptions.metadata.totalChunks )
    => /\ Threw(pureResult)
       /\ pureResult.data = <<>>
       /\ PurePasswordOk =>
              /\ pureResult.error = IncompleteError
              /\ pureResult.calls = <<>>

\* the group of chunk 0 is complete, the group of chunk 1 is missing
C14_Witness ==
    /\ pc = "recoverFilePureShamir"
    /\ PurePasswordOk
    /\ PureOptions.metadata.totalChunks = 2
    /\ Len(PureOptions.shares) = 1
    /\ GroupSize(0) >= PureOptions.metadata.threshold
    /\ pureResult.error = IncompleteError

(***************************************************************************)
(* Claims about the errors of recovery.                                    *)
(***************************************************************************)
\* the call passed every check and recovered every chunk, and goes on to
\* decrypt the recovered stream with the password
InPasswordBranch ==
    /\ pc = "recoverFilePureShamir"
    /\ PurePasswordOk
    /\ Len(PureOptions.shares) >= PureOptions.metadata.totalChunks
    /\ Cardinality(DistinctIds) >= PureOptions.metadata.threshold
    /\ ShortChunks = {}
    /\ PureOptions.metadata.usePassword
    /\ pureRecovery.userPassword # ""
    /\ PureOptions.metadata.salt.present

DecryptionError == Err("Password error or data corruption", <<>>)

\* the length of the buffer the recovered chunks are copied into
RecoveredStreamLen ==
    IF PureOptions.metadata.usePassword
    THEN PureOptions.metadata.processedSize
    ELSE PureOptions.metadata.originalSize

\* C15: in the password branch of recoverFilePureShamir every failure (a
\* recovered stream shorter than the iv, a rejected tag, a wrong password,
\* an error of the provider) is the one error "Password error or data
\* corruption" with nothing else in the result, and a password other than the
\* one of the split never yields data
C15_UniformDecryptionFailure ==
    InPasswordBranch =>
        /\ Threw(pureResult) =>
               pureResult = [error |-> DecryptionError, data |-> <<>>,
                             recoveredSHA256 |-> <<>>, filename |-> "",
                             calls |-> pureResult.calls]
        /\ pureRecovery.userPassword # pureCall.userPassword =>
               /\ Threw(pureResult)
               /\ pureResult.data = <<>>

\* the recovered stream is shorter than the iv and the password is right:
\* the call fails with the generic error before it decrypts
C15_Witness ==
    /\ InPasswordBranch
    /\ RecoveredStreamLen < IV_SIZE
    /\ pureRecovery.userPassword = pureCall.userPassword
    /\ pureResult.error = DecryptionError
    /\ pureResult.calls = secretCalls(PureOptions.metadata.totalChunks)

\* the values put into the message of error tell both counts
ReportsCounts(error, needed, actual) ==
    \E i, j \in DOMAIN error.args :
        /\ i # j
        /\ error.args[i] = needed
        /\ error.args[j] = actual

\* the two insufficient-shares errors of recoverFilePureShamir tell the
\* threshold and the count found
PureErrorsReportCounts ==
    pc = "recoverFilePureShamir" =>
        /\ pureResult.error = DistinctIdError =>
               ReportsCounts(pureResult.error, PureOptions.metadata.threshold,
                             Cardinality(DistinctIds))
        /\ \A c \in ShortChunks :
               pureResult.error = PerChunkError(c) =>
                   ReportsCounts(pureResult.error,
                                 PureOptions.metadata.threshold, GroupSize(c))

\* C16: every insufficient-shares error, of recoverSecret, of recoverFile
\* and of recoverFilePureShamir (distinct ids and per chunk), reports the
\* needed count (the threshold) and the count that was supplied
C16_ErrorsReportBothCounts ==
    /\ PureErrorsReportCounts
    /\ pc = "recoverSecret" /\ Len(recShares) < recThreshold =>
           /\ Threw(recResult)
           /\ ReportsCounts(recResult.error, recThreshold, Len(recShares))
    /\ pc = "recoverFile"
           /\ Len(HybridOptions.shares) < HybridOptions.metadata.threshold =>
           /\ Threw(hybridResult)
           /\ ReportsCounts(hybridResult.error,
                            HybridOptions.metadata.threshold,
                            Len(HybridOptions.shares))

(***************************************************************************)
(* Claims about what recovery returns.                                     *)
(***************************************************************************)
\* recoverFile was called for a password file, with a password and with
\* enough shares to pass the count check
HybridPasswordPath ==
    /\ pc = "recoverFile"
    /\ HybridOptions.metadata.usePassword
    /\ HybridOptions.metadata.salt.present
    /\ hybridRecovery.userPassword # ""
    /\ Len(HybridOptions.shares) >= HybridOptions.metadata.threshold

\* the outcome of decrypting with the password, the salt and the iv alone
HybridPasswordOutcome ==
    LET metadata == HybridOptions.metadata
        decrypted == decryptDataWithPassword(hybridRecovery.encryptedData,
                         hybridRecovery.userPassword, metadata.salt.bytes,
                         metadata.iv)
    IN  IF Threw(decrypted) THEN [error |-> decrypted.error, data |-> <<>>]
        ELSE [error |-> NoError, data |-> decrypted.data]

\* C17: for a password file, recoverFile with a password decrypts with the
\* key derived from the password and metadata.salt and with metadata.iv, and
\* never calls recoverSecret; the data returned or the error thrown is the
\* same for every share list of length >= metadata.threshold, whatever its
\* ids and values
C17_PasswordPathIgnoresShares ==
    HybridPasswordPath =>
        /\ hybridResult.calls = <<"decryptDataWithPassword">>
        /\ hybridResult.error = HybridPasswordOutcome.error
        /\ hybridResult.data = HybridPasswordOutcome.data
        /\ \A other \in ForgedShares :
               Len(other) >= HybridOptions.metadata.threshold =>
                   recoverFile(hybridRecovery.encryptedData,
                               [shares |-> other,
                                metadata |-> HybridOptions.metadata],
                               hybridRecovery.userPassword) = hybridResult

\* with the right password and shares that were never issued (two of them
\* with the same id) the call returns the file
C17_Witness ==
    /\ HybridPasswordPath
    /\ HybridOptions.shares \in ForgedShares
    /\ \E i, j \in 1 .. Len(HybridOptions.shares) :
           i # j /\ HybridOptions.shares[i].id = HybridOptions.shares[j].id
    /\ ~Threw(hybridResult)
    /\ hybridResult.data = hybridCall.file.bytes
    /\ Len(hybridResult.data) > 0

\* the digests metadata.originalSHA256 is set to when asking whether it
\* matters: that of the file that was split and that of other data
HybridDigests == {calculateSHA256(hybridCall.file.bytes), OtherSHA256}

PureDigests == {calculateSHA256(pureCall.file.bytes), OtherSHA256}

SchemeTags == {JsString("hybrid"), JsString("pure-shamir")}

\* the text is JSON for an object whose metadata has a scheme property
CarriesScheme(text) ==
    /\ text.parseable
    /\ text.json.type = "object"
    /\ "metadata" \in DOMAIN text.json.fields
    /\ text.json.fields.metadata.type = "object"
    /\ "scheme" \in DOMAIN text.json.fields.metadata.fields

\* the text is JSON for an object with a truthy shareId and a shares array
PureShamirShape(text) ==
    /\ text.parseable
    /\ text.json.type = "object"
    /\ "shareId" \in DOMAIN text.json.fields
    /\ Truthy(text.json.fields.shareId)
    /\ "shares" \in DOMAIN text.json.fields
    /\ text.json.fields.shares.type = "array"

\* detectScheme never throws, and returns 'hybrid' for a text that is not
\* JSON or has neither a metadata.scheme property nor the pure Shamir shape
DetectSchemeDefaults ==
    pc = "detectScheme" =>
        /\ ~Threw(detectResult)
        /\ ~CarriesScheme(detectCall) /\ ~PureShamirShape(detectCall) =>
               detectResult.value = JsString("hybrid")

\* C18: detectScheme never throws; for every text it returns a scheme tag,
\* and it returns 'hybrid' when the text is not JSON or has neither a
\* metadata.scheme property nor the pure Shamir shape
C18_DetectSchemeTotal ==
    /\ DetectSchemeDefaults
    /\ pc = "detectScheme" => detectResult.value \in SchemeTags

\* the share with the given id among the shares of one chunk
ShareOfId(chunkShares, id) ==
    CHOOSE share \in Range(chunkShares) : share.id = id

\* C20: parsing any selection of the share files written for a split, in any
\* order, gives every share value as the original integer and salt and iv
\* as the original bytes (the metadata as a whole is that of the split); in
\* the pure Shamir scheme group c holds exactly the shares of chunk c of the
\* files selected, one per file, in the order of selection
C20_ShareFileRoundTrip ==
    /\ pc = "parseShareFiles" =>
           /\ parseResult.shares =
                  selectShares(hybridSplit.shares, parseCall.upload)
           /\ parseResult.metadata =
                  IF parseCall.upload = <<>> THEN NullMetadata
                  ELSE hybridSplit.metadata
    /\ pc = "parsePureShamirShareFiles" =>
           /\ parseResult.metadata =
                  IF parseCall.upload = <<>> THEN NullMetadata
                  ELSE pureSplit.metadata
           /\ Len(parseResult.shares) =
                  IF parseCall.upload = <<>> THEN 0
                  ELSE pureSplit.metadata.totalChunks
           /\ \A c \in 1 .. Len(parseResult.shares) :
                  parseResult.shares[c] =
                      [k \in 1 .. Len(parseCall.upload) |->
                          ShareOfId(pureSplit.shares[c], parseCall.upload[k])]

\* two share files of a password file of two chunks are parsed in the
\* reverse of their order; a value has two decimal digits in the text and
\* the salt is in base64
C20_Witness ==
    /\ pc = "parsePureShamirShareFiles"
    /\ Len(parseCall.upload) = 2
    /\ parseCall.upload[1] > parseCall.upload[2]
    /\ pureSplit.metadata.totalChunks = 2
    /\ pureSplit.metadata.salt.present
    /\ parseCall.shareFilesData[1].metadata.salt.bytes
           = <<ByteBase * ByteBase, Base64Pad, Base64Pad>>
    /\ parseResult.metadata.salt = Defined(<<1>>)
    /\ \E k \in 1 .. 2 :
           /\ Len(parseCall.shareFilesData[1].shares[k].value) = 2
           /\ parseResult.shares[k][1].value >= 10
           /\ parseResult.shares[k][1].id = parseCall.upload[1]

\* Math.ceil(n / size) for n >= 0
CeilDiv(n, size) == (n + size - 1) \div size

\* the share files generated for the result of the last pure Shamir split
PureShareFiles ==
    generatePureShamirShareFiles(pureSplit.shares, pureSplit.metadata)

\* C21: in the result of a successful splitFilePureShamir every share has
\* 0 <= chunkIndex < totalChunks, with totalChunks that of the metadata and
\* equal to ceil(processedSize / CHUNK_SIZE); generatePureShamirShareFiles
\* yields totalShares files, and the file of id k holds one share per chunk,
\* all of id k, with chunk indices 0 .. totalChunks - 1, each once
C21_ChunkCoverage ==
    (pc \in {"splitFilePureShamir", "recoverFilePureShamir"}
        /\ ~Threw(pureSplit)) =>
        LET totalChunks == pureSplit.metadata.totalChunks
        IN  /\ totalChunks = CeilDiv(pureSplit.metadata.processedSize,
                                     CHUNK_SIZE)
            /\ \A c \in 1 .. Len(pureSplit.shares) :
                   \A share \in Range(pureSplit.shares[c]) :
                       /\ 0 <= share.chunkIndex
                       /\ share.chunkIndex < totalChunks
                       /\ share.totalChunks = totalChunks
            /\ Len(PureShareFiles) = pureSplit.metadata.totalShares
            /\ \A k \in 1 .. Len(PureShareFiles) :
                   LET shareData == PureShareFiles[k].shares
                   IN  /\ PureShareFiles[k].shareId = k
                       /\ Len(shareData) = totalChunks
                       /\ \A share \in Range(shareData) : share.id = k
                       /\ {share.chunkIndex : share \in Range(shareData)}
                              = 0 .. (totalChunks - 1)

\* a file of three bytes is split into two chunks for three holders
C21_Witness ==
    /\ pc = "splitFilePureShamir"
    /\ ~Threw(pureSplit)
    /\ pureSplit.metadata.processedSize = 3
    /\ pureSplit.metadata.totalChunks = 2
    /\ Len(PureShareFiles) = 3
    /\ Len(PureShareFiles[3].shares) = 2
    /\ PureShareFiles[3].shares[2].chunkIndex = 1

(***************************************************************************)
(* recoverSecret called on its own, with any list of shares.               *)
(***************************************************************************)
\* the share lists a caller can hand to recoverSecret: any ids, repeated or
\* not, in any order, with any values
AnyShareLists ==
    UNION {[1 .. n -> [id : 1 .. MaxShares, value : {0, 7}]] :
           n \in 0 .. MaxShares}

\* a caller hands any list of shares and any threshold to recoverSecret
CallRecoverSecret ==
    /\ pc = "idle"
    /\ \E shs \in AnyShareLists, threshold \in 0 .. (MaxShares + 1) :
         /\ recShares' = shs
         /\ recThreshold' = threshold
         /\ recResult' = recoverSecret(shs, threshold)
    /\ pc' = "recoverSecret"
    /\ UNCHANGED <<secret, config, splitResult, codecVars, hybridVars, pureVars,
                   textVars,
                   fieldVars,
                   walletVars>>

RecoverCallNext == CallRecoverSecret

SpecRecoverCall == Init /\ [][RecoverCallNext]_vars

\* C22: recoverSecret on a list of at least threshold shares returns the
\* interpolation at 0 of the first threshold shares in input order; any list
\* that agrees on those positions (shares after them changed, removed or
\* appended) gives the same result
C22_FirstThresholdShares ==
    (pc = "recoverSecret" /\ Len(recShares) >= recThreshold) =>
        LET usedShares == SubSeq(recShares, 1, recThreshold)
        IN  /\ recResult.error = NoError
            /\ recResult.value = lagrangeInterpolation(usedShares)
            /\ \A other \in AnyShareLists :
                   (Len(other) >= recThreshold
                       /\ SubSeq(other, 1, recThreshold) = usedShares)
                       => recoverSecret(other, recThreshold) = recResult

\* three shares of distinct ids with threshold 2, the third one off the line
\* through the first two
C22_Witness ==
    /\ pc = "recoverSecret"
    /\ recThreshold = 2
    /\ Len(recShares) = 3
    /\ Cardinality({recShares[k].id : k \in 1 .. 3}) = 3
    /\ recResult.error = NoError
    /\ lagrangeInterpolation(recShares) # recResult.value

(***************************************************************************)
(* Recovery from uploaded share files: the texts selected, any of them     *)
(* possibly more than once (a copy of a share file is a share file), are   *)
(* parsed and the parser's output is handed to the recovery.               *)
(***************************************************************************)
\* the selections of one to MaxShares of n share files, repeats allowed
Uploads(n) == UNION {[1 .. len -> 1 .. n] : len \in 1 .. MaxShares}

\* parseShareFiles, then recoverFile on its output
RecoverUploadedFile ==
    /\ pc = "downloadJson"
    /\ \E upload \in Uploads(Len(shareFileTexts)),
          userPassword \in Passwords :
         LET shareFilesData == selectShares(shareFileTexts, upload)
             options == parseShareFiles(shareFilesData)
         IN  /\ parseCall' = [upload |-> upload,
                              shareFilesData |-> shareFilesData]
             /\ parseResult' = options
             /\ hybridRecovery' = [encryptedData |-> hybridSplit.encryptedData,
                                   options |-> options,
                                   userPassword |-> userPassword]
             /\ hybridResult' = recoverFile(hybridSplit.encryptedData, options,
                                            userPassword)
    /\ pc' = "recoverUploadedFile"
    /\ UNCHANGED <<hybridCall, hybridSplit, shareFileTexts, detectCall,
                   detectResult, coreVars, codecVars, pureVars,
                   fieldVars,
                   walletVars>>

\* parsePureShamirShareFiles, then recoverFilePureShamir on its output
RecoverUploadedFilePureShamir ==
    /\ pc = "downloadJsonPureShamir"
    /\ \E upload \in Uploads(Len(shareFileTexts)),
          userPassword \in Passwords :
         LET shareFilesData == selectShares(shareFileTexts, upload)
             options == parsePureShamirShareFiles(shareFilesData)
         IN  /\ parseCall' = [upload |-> upload,
                              shareFilesData |-> shareFilesData]
             /\ parseResult' = options
             /\ pureRecovery' = [shareIds |-> upload, options |-> options,
                                 userPassword |-> userPassword]
             /\ pureResult' = recoverFilePureShamir(options, userPassword)
    /\ pc' = "recoverUploadedFilePureShamir"
    /\ UNCHANGED <<pureCall, pureSplit, shareFileTexts, detectCall,
                   detectResult, coreVars, codecVars, hybridVars,
                   fieldVars,
                   walletVars>>

UploadNext ==
    \/ SplitSampleFile
    \/ DownloadShareFiles
    \/ RecoverUploadedFile
    \/ SplitSampleFilePureShamir
    \/ DownloadPureShamirShareFiles
    \/ RecoverUploadedFilePureShamir
    \/ CallRecoverSecret

SpecUpload == Init /\ [][UploadNext]_vars

\* the ids of the shares that recoverSecret interpolates
usedIds(shs, threshold) ==
    [k \in 1 .. Min(threshold, Len(shs)) |-> shs[k].id]

\* no id occurs twice in a sequence of ids
PairwiseDistinct(ids) ==
    \A i, j \in 1 .. Len(ids) : ids[i] = ids[j] => i = j

\* the denominators that lagrangeInterpolation hands to modInverse
Denominators(shs) ==
    {lagrangeInner(shs, i, 1, 1, 1)[2] : i \in 1 .. Len(shs)}

\* the number of calls of recoverSecret among the calls of a recovery
SecretCallCount(calls) ==
    Cardinality({k \in 1 .. Len(calls) : calls[k] = "recoverSecret"})

\* C23 as stated: in every recovery through recoverSecret, recoverFile on
\* the output of parseShareFiles or recoverFilePureShamir on the output of
\* parsePureShamirShareFiles that passes the share-count checks, the shares
\* interpolated have pairwise distinct ids and no denominator handed to
\* modInverse is 0 modulo the prime
C23_NoZeroDenominator ==
    /\ (pc = "recoverSecret" /\ ~Threw(recResult)) =>
           /\ PairwiseDistinct(usedIds(recShares, recThreshold))
           /\ 0 \notin Denominators(SubSeq(recShares, 1, recThreshold))
    /\ (pc = "recoverUploadedFile"
           /\ SecretCallCount(hybridResult.calls) > 0) =>
           /\ PairwiseDistinct(usedIds(parseResult.shares,
                                       parseResult.metadata.threshold))
           /\ 0 \notin Denominators(SubSeq(parseResult.shares, 1,
                                           parseResult.metadata.threshold))
    /\ pc = "recoverUploadedFilePureShamir" =>
           \A c \in 1 .. SecretCallCount(pureResult.calls) :
               /\ PairwiseDistinct(usedIds(parseResult.shares[c],
                                           parseResult.metadata.threshold))
               /\ 0 \notin Denominators(SubSeq(parseResult.shares[c], 1,
                                            parseResult.metadata.threshold))

(***************************************************************************)
(* The finite-field helpers called on their own.                           *)
(***************************************************************************)
FieldArgs == (-MaxFieldArg) .. MaxFieldArg

Moduli == 1 .. MaxModulus

CallMod ==
    /\ pc = "idle"
    /\ \E a \in FieldArgs, m \in Moduli :
         /\ fieldCall' = [a |-> a, m |-> m]
         /\ fieldResult' = mod(a, m)
    /\ pc' = "mod"
    /\ UNCHANGED <<coreVars, codecVars, hybridVars, pureVars, textVars,
                   walletVars>>

CallModInverse ==
    /\ pc = "idle"
    /\ \E a \in FieldArgs, m \in Moduli :
         /\ fieldCall' = [a |-> a, m |-> m]
         /\ fieldResult' = modInverse(a, m)
    /\ pc' = "modInverse"
    /\ UNCHANGED <<coreVars, codecVars, hybridVars, pureVars, textVars,
                   walletVars>>

FieldNext ==
    \/ CallMod
    \/ CallModInverse

SpecField == Init /\ [][FieldNext]_vars

IsPrime(n) == n >= 2 /\ \A k \in 2 .. (n - 1) : n % k # 0

\* the number of rounds of the while loop of modInverse
RECURSIVE modInverseRounds(_, _)
modInverseRounds(old_r, r) ==
    IF r = 0 THEN 0
    ELSE 1 + modInverseRounds(r, old_r - JsDiv(old_r, r) * r)

\* C24: for every modulus m > 0 and every integer a, negative or not,
\* mod(a, m) is in [0, m) and congruent to a; for every prime m and every
\* integer a (negative, or m and above, included) that is not a multiple of
\* m, the loop of modInverse ends (after at most a + m rounds for a >= 0)
\* and modInverse(a, m) is an x in [0, m) with (a * x) mod m = 1
C24_FieldHelpers ==
    /\ pc = "mod" =>
           /\ fieldResult \in 0 .. (fieldCall.m - 1)
           /\ (fieldResult - fieldCall.a) % fieldCall.m = 0
    /\ (pc = "modInverse" /\ IsPrime(fieldCall.m)
           /\ fieldCall.a % fieldCall.m # 0) =>
           /\ fieldResult \in 0 .. (fieldCall.m - 1)
           /\ (fieldCall.a * fieldResult) % fieldCall.m = 1
           /\ modInverseRounds(IF fieldCall.a < 0
                               THEN mod(fieldCall.a, fieldCall.m)
                               ELSE fieldCall.a, fieldCall.m)
                  <= MaxFieldArg + fieldCall.m

\* the inverse of a negative number and of a number above the prime, neither
\* inverse being 1
C24_Witness ==
    /\ pc = "modInverse"
    /\ fieldCall.m = getSecurePrime
    /\ fieldCall.a \in {-3, getSecurePrime + 2}
    /\ fieldResult > 1
    /\ (fieldCall.a * fieldResult) % fieldCall.m = 1

(***************************************************************************)
(* Claims about the order of the checks of recovery.                       *)
(***************************************************************************)
HybridShareCountError ==
    Err("Need at least ${metadata.threshold} shares to recover file",
        <<HybridOptions.metadata.threshold>>)

\* the checks of recoverFilePureShamir that fail for the call, as the places
\* they have in the order 1 password required, 2 password not expected,
\* 3 share data incomplete, 4 distinct ids, 5 shares of a chunk
PureFailures ==
    {k \in 1 .. 5 :
        \/ k = 1 /\ PurePasswordMissing
        \/ k = 2 /\ PurePasswordSurplus
        \/ k = 3 /\ Len(PureOptions.shares) < PureOptions.metadata.totalChunks
        \/ k = 4 /\ Cardinality(DistinctIds) < PureOptions.metadata.threshold
        \/ k = 5 /\ ShortChunks # {}}

FirstPureFailure == CHOOSE k \in PureFailures : \A k2 \in PureFailures : k <= k2

PureFailureError(k) ==
    CASE k = 1 -> PurePasswordRequiredError
      [] k = 2 -> PurePasswordNotExpectedError
      [] k = 3 -> IncompleteError
      [] k = 4 -> DistinctIdError
      [] k = 5 -> PerChunkError(FirstShortChunk)

\* the checks of recoverFile that fail for the call: 1 share count,
\* 2 password required, 3 password not expected
HybridFailures ==
    {k \in 1 .. 3 :
        \/ k = 1 /\ Len(HybridOptions.shares) < HybridOptions.metadata.threshold
        \/ k = 2 /\ HybridPasswordMissing
        \/ k = 3 /\ HybridPasswordSurplus}

FirstHybridFailure ==
    CHOOSE k \in HybridFailures : \A k2 \in HybridFailures : k <= k2

HybridFailureError(k) ==
    CASE k = 1 -> HybridShareCountError
      [] k = 2 -> HybridPasswordRequiredError
      [] k = 3 -> HybridPasswordNotExpectedError

\* C25: when checks of a recoverFilePureShamir call fail, the error is that
\* of the first failing one in the order password required, password not
\* expected, share data incomplete, distinct ids, shares of a chunk (the
\* first short chunk, after recoverSecret for the chunks before it and for
\* no other); recoverFile checks the share count before the password; in all
\* these cases there is no call of the key derivation, of the cipher or of
\* the digest, and no data
C25_ValidationOrder ==
    /\ (pc = "recoverFilePureShamir" /\ PureFailures # {}) =>
           /\ pureResult.error = PureFailureError(FirstPureFailure)
           /\ pureResult.calls = IF FirstPureFailure = 5
                                 THEN secretCalls(FirstShortChunk)
                                 ELSE <<>>
           /\ pureResult.data = <<>>
           /\ pureResult.recoveredSHA256 = <<>>
    /\ (pc = "recoverFile" /\ HybridFailures # {}) =>
           /\ hybridResult.error = HybridFailureError(FirstHybridFailure)
           /\ hybridResult.calls = <<>>
           /\ hybridResult.data = <<>>
           /\ hybridResult.recoveredSHA256 = <<>>

\* a password is missing and the shares are too few: recoverFile reports
\* the shares
C25_WitnessHybrid ==
    /\ pc = "recoverFile"
    /\ HybridFailures = {1, 2}
    /\ hybridResult.error = HybridShareCountError

\* a password is missing, a group is missing, the ids are too few and a
\* chunk is short
C25_Witness ==
    /\ pc = "recoverFilePureShamir"
    /\ PureFailures = {1, 3, 4, 5}
    /\ pureResult.error = PurePasswordRequiredError

(***************************************************************************)
(* The splits of files on their own.                                       *)
(***************************************************************************)
SplitNext ==
    \/ SplitFile
    \/ SplitFilePureShamir

SpecSplit == Init /\ [][SplitNext]_vars

\* C26 as stated: every integer that splitFilePureShamir (the chunk values)
\* and splitFile (the key as an integer) hand to splitSecret is below the
\* prime, so that interpolating the first threshold shares issued for it
\* gives the integer itself
C26_SplitInputsInField ==
    /\ (pc = "splitFilePureShamir" /\ ~Threw(pureSplit)) =>
           \A c \in 1 .. Len(pureSplit.chunks) :
               /\ pureSplit.chunks[c] < getSecurePrime
               /\ recoverSecret(pureSplit.shares[c],
                                pureSplit.metadata.threshold).value
                      = pureSplit.chunks[c]
    /\ (pc = "splitFile" /\ ~Threw(hybridSplit)) =>
           /\ arrayBufferToBigInt(hybridSplit.key) < getSecurePrime
           /\ recoverSecret(hybridSplit.shares,
                            hybridSplit.metadata.threshold).value
                  = arrayBufferToBigInt(hybridSplit.key)

\* the share files of the upload have at least threshold distinct ids
UploadHasThresholdIds ==
    Cardinality(Range(parseCall.upload)) >= pureSplit.metadata.threshold

\* C27 as stated: when the share files uploaded come from one split and
\* have at least threshold distinct ids, some of them possibly uploaded more
\* than once and in any order, recoverFilePureShamir on the output of
\* parsePureShamirShareFiles fails or returns the bytes of the file that was
\* split
C27_DuplicateUploadsHarmless ==
    (pc = "recoverUploadedFilePureShamir" /\ UploadHasThresholdIds
        /\ ~Threw(pureResult))
    => pureResult.data = pureCall.file.bytes

\* the same for the splits in which every chunk is below the prime
DuplicateUploadsBelowPrime ==
    (pc = "recoverUploadedFilePureShamir" /\ UploadHasThresholdIds
        /\ ~Threw(pureResult)
        /\ \A c \in 1 .. Len(pureSplit.chunks) :
               pureSplit.chunks[c] < getSecurePrime)
    => pureResult.data = pureCall.file.bytes

\* and, among these, for the uploads whose first threshold files differ
DistinctLeadingUploads ==
    (pc = "recoverUploadedFilePureShamir" /\ UploadHasThresholdIds
        /\ ~Threw(pureResult)
        /\ PairwiseDistinct(SubSeq(parseCall.upload, 1,
                                   pureSplit.metadata.threshold))
        /\ \A c \in 1 .. Len(pureSplit.chunks) :
               pureSplit.chunks[c] < getSecurePrime)
    => pureResult.data = pureCall.file.bytes

\* a recoverFilePureShamir call of a password file with a password
PasswordRecovery ==
    /\ pc = "recoverFilePureShamir"
    /\ PureOptions.metadata.usePassword
    /\ pureRecovery.userPassword # ""

\* C28 as stated: when metadata.usePassword is true and a password is
\* given, recoverFilePureShamir fails or returns what decryptDataWithPassword
\* returned for the recovered stream, and never the recovered stream of iv
\* and ciphertext itself, a missing metadata.salt included
C28_NeverUndecrypted ==
    (PasswordRecovery /\ ~Threw(pureResult)) =>
        /\ "decryptDataWithPassword" \in Range(pureResult.calls)
        /\ pureResult.data = pureCall.file.bytes

\* the same for metadata that carries a salt
DecryptedWhenSalted ==
    (PasswordRecovery /\ ~Threw(pureResult)
        /\ PureOptions.metadata.salt.present) =>
        /\ "decryptDataWithPassword" \in Range(pureResult.calls)
        /\ pureResult.data = pureCall.file.bytes

\* without a salt every call that passes the checks returns the stream
StreamWhenUnsalted ==
    (PasswordRecovery /\ ~PureOptions.metadata.salt.present
        /\ PureFailures = {}) =>
        /\ ~Threw(pureResult)
        /\ pureResult.calls = secretCalls(PureOptions.metadata.totalChunks)
        /\ pureResult.data =
               bigIntChunksToArrayBuffer(
                   [c \in 1 .. PureOptions.metadata.totalChunks |->
                       recoverSecret(PureOptions.shares[c],
                                     PureOptions.metadata.threshold).value],
                   PureOptions.metadata.processedSize)

\* the error of splitSecret for an invalid config
ConfigError(cfg) ==
    IF cfg.threshold > cfg.totalShares
    THEN Err("Threshold cannot be greater than total shares", <<>>)
    ELSE Err("Threshold must be at least 2", <<>>)

\* what a split does about its config
ConfigChecked(call, result) ==
    IF ValidConfig(call.config)
    THEN /\ ~Threw(result)
         /\ result.metadata.threshold = call.config.threshold
         /\ result.metadata.totalShares = call.config.totalShares
    ELSE result.error = ConfigError(call.config)

\* C29 as stated: every result of splitFile and of splitFilePureShamir has
\* metadata with 2 <= threshold <= totalShares, for every file, the empty
\* one included, with and without a password; under an invalid config the
\* split fails with the configuration error
C29_SplitChecksConfig ==
    /\ pc = "splitFile" => ConfigChecked(hybridCall, hybridSplit)
    /\ pc = "splitFilePureShamir" => ConfigChecked(pureCall, pureSplit)

\* the same, the empty file without password in the pure Shamir scheme apart
ConfigCheckedUnlessNoChunk ==
    /\ pc = "splitFile" => ConfigChecked(hybridCall, hybridSplit)
    /\ (pc = "splitFilePureShamir"
           /\ ~(pureCall.file.bytes = <<>> /\ pureCall.userPassword = ""))
       => ConfigChecked(pureCall, pureSplit)

\* the empty file without password is split under any config at all
EmptyFileAnyConfig ==
    (pc = "splitFilePureShamir" /\ pureCall.file.bytes = <<>>
        /\ pureCall.userPassword = "")
    => /\ ~Threw(pureSplit)
       /\ pureSplit.shares = <<>>
       /\ pureSplit.metadata.threshold = pureCall.config.threshold
       /\ pureSplit.metadata.totalShares = pureCall.config.totalShares

(***************************************************************************)
(* The wallet backup: a wallet is created and its shares are displayed;    *)
(* later three share fields are filled in and the wallet is recovered.     *)
(***************************************************************************)
HandleCreate ==
    /\ pc = "idle"
    /\ \E mnemonic \in Mnemonics, random \in [1 .. 2 -> FileDraws] :
         LET newShares == splitSecret(mnemonicToBigInt(mnemonic), WalletConfig,
                                      random).shares
         IN  /\ walletMnemonic' = mnemonic
             /\ walletShares' = [k \in 1 .. Len(newShares) |->
                                    shareString(newShares[k])]
    /\ pc' = "handleCreate"
    /\ UNCHANGED <<walletInputs, walletRecovered, coreVars, codecVars,
                   hybridVars, pureVars, textVars, fieldVars>>

\* each field holds one of the shares displayed, or nothing
HandleRecover ==
    /\ pc = "handleCreate"
    /\ \E inputs \in [1 .. 3 -> Range(walletShares) \cup {<<>>}] :
         /\ walletInputs' = inputs
         /\ walletRecovered' = handleRecover(inputs)
    /\ pc' = "handleRecover"
    /\ UNCHANGED <<walletMnemonic, walletShares, coreVars, codecVars,
                   hybridVars, pureVars, textVars, fieldVars>>

WalletNext ==
    \/ HandleCreate
    \/ HandleRecover

SpecWallet == Init /\ [][WalletNext]_vars

\* the three fields hold three different shares of those displayed
ThreeDisplayedShares ==
    /\ pc = "handleRecover"
    /\ \A k \in 1 .. 3 : walletInputs[k] # <<>>
    /\ PairwiseDistinct(walletInputs)

\* C30 as stated: from any three of the five shares displayed by
\* handleCreate, handleRecover rebuilds the mnemonic of the wallet
C30_WalletRoundTrip ==
    ThreeDisplayedShares =>
        /\ walletRecovered.error = NoError
        /\ walletRecovered.mnemonic = walletMnemonic

\* what is rebuilt instead: the text of the residue of the mnemonic's integer
\* modulo the prime, which is shorter than a mnemonic and no mnemonic
WalletRecoversResidue ==
    ThreeDisplayedShares =>
        /\ walletRecovered.error = NoError
        /\ mnemonicToBigInt(walletMnemonic) >= getSecurePrime
        /\ walletRecovered.mnemonic =
               bigIntToMnemonic(mnemonicToBigInt(walletMnemonic)
                                    % getSecurePrime)
        /\ Len(walletRecovered.mnemonic) < Len(walletMnemonic)
        /\ ~walletRecovered.imported

\* the displayed shares are read back as the shares that were issued
SharesReadBack ==
    pc \in {"handleCreate", "handleRecover"} =>
        /\ Len(walletShares) = WalletConfig.totalShares
        /\ \A k \in 1 .. Len(walletShares) :
               /\ parseShareString(walletShares[k]).id = k
               /\ shareString(parseShareString(walletShares[k]))
                      = walletShares[k]

====
